---- MODULE Spec2Model ----
(***************************************************************************)
(* Model of the caithe wallpaper manager (src/core/WallpaperManager.cpp    *)
(* and src/core/DisplayManager.cpp, both stored in                         *)
(* src/src/core/WallpaperManager.h).                                       *)
(*                                                                         *)
(* Strings that the code takes apart (paths, extensions, display names,    *)
(* command arguments) are sequences of one-character strings.  The         *)
(* placement map std::unordered_map<int, WallpaperInfo> is the sequence of *)
(* its nodes in iteration order.  Every external command run by a call is  *)
(* appended to cmds together with its exit status.                         *)
(***************************************************************************)
EXTENDS Integers, Sequences, FiniteSets, TLC

VARIABLES
    m_wallpapers,          \* WallpaperManager::m_wallpapers, nodes in iteration order
    m_lastError,           \* WallpaperManager::m_lastError
    m_lastErrorCode,       \* WallpaperManager::m_lastErrorCode
    m_allWallpapersCache,  \* WallpaperManager::m_allWallpapersCache
    m_cacheValid,          \* WallpaperManager::m_cacheValid
    m_displays,            \* DisplayManager::m_displays
    last,                  \* the last public call: operation, arguments, return value
    cmds,                  \* external commands issued by the last public call
    nCalls,                \* number of public calls made so far
    before                 \* m_wallpapers as it was when the last public call began

vars == <<m_wallpapers, m_lastError, m_lastErrorCode, m_allWallpapersCache,
          m_cacheValid, m_displays, last, cmds, nCalls, before>>

----------------------------------------------------------------------------
(* Bounds *)

\* largest display id passed to a call; ids range over -1 .. MaxDisplayId
MaxDisplayId == 1

\* number of public calls in one behaviour
MaxCalls == 3

DisplayIds == -1 .. MaxDisplayId

----------------------------------------------------------------------------
(* Strings *)

UpperChars == <<"A","B","C","D","E","F","G","H","I","J","K","L","M",
                "N","O","P","Q","R","S","T","U","V","W","X","Y","Z">>
LowerChars == <<"a","b","c","d","e","f","g","h","i","j","k","l","m",
                "n","o","p","q","r","s","t","u","v","w","x","y","z">>

\* ::tolower as a table over the upper-case letters
LowerOf ==
    [c \in {UpperChars[i] : i \in 1..Len(UpperChars)} |->
        LowerChars[CHOOSE i \in 1..Len(UpperChars) : UpperChars[i] = c]]

\* ::tolower on one character
tolower(c) == IF c \in DOMAIN LowerOf THEN LowerOf[c] ELSE c

\* std::transform(s.begin(), s.end(), s.begin(), ::tolower)
ToLowerStr(s) == [i \in 1..Len(s) |-> tolower(s[i])]

\* position of the last occurrence of c in s, 0 if there is none
LastIndexOf(s, c) ==
    IF \E i \in 1..Len(s) : s[i] = c
    THEN CHOOSE i \in 1..Len(s) : s[i] = c /\ \A j \in (i+1)..Len(s) : s[j] # c
    ELSE 0

\* std::filesystem::path::filename(): what follows the last directory separator
Filename(p) == SubSeq(p, LastIndexOf(p, "/") + 1, Len(p))

\* std::filesystem::path::extension(): from the last dot of the filename on;
\* empty for "." and "..", and when the only dot is the leading character
Extension(p) ==
    LET f == Filename(p)
        d == LastIndexOf(f, ".")
    IN  IF f = <<".">> \/ f = <<".", ".">> \/ d <= 1
        THEN <<>>
        ELSE SubSeq(f, d, Len(f))

\* std::to_string(int) for the display ids used here
DigitChars == <<"0","1","2","3","4","5","6","7","8","9">>

RECURSIVE NatToStr(_)
NatToStr(n) ==
    IF n < 10 THEN <<DigitChars[n + 1]>>
    ELSE NatToStr(n \div 10) \o <<DigitChars[(n % 10) + 1]>>

INT_MAX == 2147483647
INT_MIN == -INT_MAX - 1

to_string(n) ==
    IF n = INT_MIN THEN <<"-">> \o NatToStr(INT_MAX \div 10) \o <<"8">>
    ELSE IF n < 0 THEN <<"-">> \o NatToStr(0 - n)
    ELSE NatToStr(n)

----------------------------------------------------------------------------
(* The file system the manager runs against *)

PathEmpty      == <<>>
PathA          == <<"a", ".", "p", "n", "g">>
PathB          == <<"w", "/", "b", ".", "J", "P", "G">>
PathTxt        == <<"c", ".", "t", "x", "t">>
PathMissingPng == <<"m", ".", "p", "n", "g">>
PathMissingTxt == <<"m", ".", "t", "x", "t">>

\* the paths handed to the calls
Paths == {PathEmpty, PathA, PathB, PathTxt, PathMissingPng, PathMissingTxt}

\* image files whose names hold a blank, a command separator, a quote, the
\* name of a variable, a single quote and the sign of a background command
PathSpace  == <<"m", " ", "y", ".", "p", "n", "g">>
PathSemi   == <<"a", ";", "b", ".", "p", "n", "g">>
PathQuote  == <<"a", "\"", "b", ".", "p", "n", "g">>
PathDollar == <<"a", "$", "H", "O", "M", "E", ".", "p", "n", "g">>
PathApostrophe == <<"a", "'", "b", ".", "p", "n", "g">>
PathAmp    == <<"a", "&", "b", ".", "p", "n", "g">>

\* the files that exist on disk
ExistingFiles == {PathA, PathB, PathTxt, PathSpace, PathSemi, PathQuote,
                  PathDollar, PathApostrophe, PathAmp}

\* std::filesystem::exists(path)
FileExists(p) == p \in ExistingFiles

\* WallpaperManager::SUPPORTED_FORMATS
SUPPORTED_FORMATS ==
    << <<".", "p", "n", "g">>,
       <<".", "j", "p", "g">>,
       <<".", "j", "p", "e", "g">>,
       <<".", "b", "m", "p">>,
       <<".", "t", "i", "f", "f">>,
       <<".", "w", "e", "b", "p">>,
       <<".", "g", "i", "f">> >>

----------------------------------------------------------------------------
(* Enumerations *)

WallpaperMode == {"Stretch", "Center", "Tile", "Scale"}

\* the modes handed to setWallpaperMode
ModeInputs == {"Stretch", "Tile", "Scale"}

ErrorCode == {"None", "InvalidPath", "FileNotFound", "UnsupportedFormat",
              "HyprlandCommandFailed", "DisplayNotFound", "InvalidDisplayId",
              "SystemError"}

\* an error text is a fixed message followed by a path or a number
ErrText(msg, detail) == [msg |-> msg, detail |-> detail]
NoErrText == ErrText("", <<>>)

----------------------------------------------------------------------------
(* The placement map: std::unordered_map<int, WallpaperInfo> *)

\* bucket count the map has from its first insertion on (no later rehash
\* happens below 14 elements)
BucketCount == 13

\* std::hash<int> is the value converted to size_t; 2^64 mod 13 = 3
Bucket(k) ==
    IF k >= 0 THEN k % BucketCount
    ELSE (3 + BucketCount - ((0 - k) % BucketCount)) % BucketCount

HasKey(nodes, k) == \E i \in 1..Len(nodes) : nodes[i].key = k

IndexOfKey(nodes, k) == CHOOSE i \in 1..Len(nodes) : nodes[i].key = k

\* m_wallpapers.find(k)->second
ValueOf(nodes, k) == nodes[IndexOfKey(nodes, k)].val

Keys(nodes) == {nodes[i].key : i \in 1..Len(nodes)}

InsertAt(seq, i, x) == SubSeq(seq, 1, i - 1) \o <<x>> \o SubSeq(seq, i, Len(seq))

\* a new node goes to the head of its bucket's run of nodes, or to the head
\* of the node list when the bucket is empty
MapInsertNew(nodes, k, v) ==
    LET node == [key |-> k, val |-> v]
        same == {i \in 1..Len(nodes) : Bucket(nodes[i].key) = Bucket(k)}
    IN  IF same = {}
        THEN <<node>> \o nodes
        ELSE InsertAt(nodes, CHOOSE i \in same : \A j \in same : i <= j, node)

\* variant: emplace semantics, an existing node keeps its value
MapAssign_Emplace(nodes, k, v) ==
    IF HasKey(nodes, k) THEN nodes ELSE MapInsertNew(nodes, k, v)

\* m_wallpapers[k] = v
MapAssign(nodes, k, v) ==
    IF HasKey(nodes, k)
    THEN [nodes EXCEPT ![IndexOfKey(nodes, k)].val = v]
    ELSE MapInsertNew(nodes, k, v)

\* m_wallpapers.erase(it)
MapErase(nodes, k) ==
    LET i == IndexOfKey(nodes, k)
    IN  SubSeq(nodes, 1, i - 1) \o SubSeq(nodes, i + 1, Len(nodes))

----------------------------------------------------------------------------
(* External commands *)

\* exit statuses std::system can report
ExitCodes == {0, 256}

DP1   == <<"D", "P", "-", "1">>
DP2   == <<"D", "P", "-", "2">>
HDMI1 == <<"H", "D", "M", "I", "-", "A", "-", "1">>
EDP1  == <<"e", "D", "P", "-", "1">>

\* output of "hyprctl monitors -j", given as the values that follow its
\* "name": fields in order of occurrence
NoMonitorOutput  == <<>>
TwoMonitorOutput == <<EDP1, <<>> >>

\* what the compositor tool answers during one applyToHyprland
Envs ==
    { [preload |-> 256, monitors |-> NoMonitorOutput,  wallpaper |-> 0],
      [preload |-> 0,   monitors |-> NoMonitorOutput,  wallpaper |-> 256],
      [preload |-> 0,   monitors |-> NoMonitorOutput,  wallpaper |-> 0],
      [preload |-> 0,   monitors |-> TwoMonitorOutput, wallpaper |-> 0] }

\* the tool's answers are drawn only for a call that consults it: one on a
\* display that has a placement (the first test of applyToHyprland), or one
\* that stores a placement first
QuietEnv == [preload |-> 256, monitors |-> NoMonitorOutput, wallpaper |-> 0]

EnvsFor(nodes, displayId) ==
    IF \E i \in 1..Len(nodes) : nodes[i].key = displayId THEN Envs ELSE {QuietEnv}

\* setWallpaper reaches the tool only with a file that exists
EnvsForPath(path) == IF path \in ExistingFiles THEN Envs ELSE {QuietEnv}

Cmd(prog, arg, status) == [prog |-> prog, arg |-> arg, status |-> status]

----------------------------------------------------------------------------
(* WallpaperManager: the operations act on a record of the members *)

DefaultWidth  == 1920
DefaultHeight == 1080

Self ==
    [m_wallpapers         |-> m_wallpapers,
     m_lastError          |-> m_lastError,
     m_lastErrorCode      |-> m_lastErrorCode,
     m_allWallpapersCache |-> m_allWallpapersCache,
     m_cacheValid         |-> m_cacheValid,
     cmds                 |-> <<>>,
     ret                  |-> FALSE]

Fail(s, msg, detail) ==
    [s EXCEPT !.m_lastError = ErrText(msg, detail), !.ret = FALSE]

FailCode(s, msg, detail, code) ==
    [s EXCEPT !.m_lastError = ErrText(msg, detail), !.m_lastErrorCode = code,
              !.ret = FALSE]

System(s, prog, arg, status) ==
    [s EXCEPT !.cmds = Append(@, Cmd(prog, arg, status))]

clearError(s) ==
    [s EXCEPT !.m_lastError = NoErrText,
              !.m_lastErrorCode = "None",
              !.m_cacheValid = FALSE]

\* std::find(SUPPORTED_FORMATS.begin(), SUPPORTED_FORMATS.end(), extension) != end()
IsSupportedFormat(extension) ==
    \E i \in 1..Len(SUPPORTED_FORMATS) : SUPPORTED_FORMATS[i] = extension

\* variant: the extension is not looked at
isValidImageFile_NoExtension(path) ==
    /\ path # <<>>
    /\ FileExists(path)

isValidImageFile(path) ==
    /\ path # <<>>
    /\ FileExists(path)
    /\ IsSupportedFormat(ToLowerStr(Extension(path)))

getHyprlandDisplayName(displayId, monitors) ==
    IF displayId >= 0 /\ displayId < Len(monitors)
    THEN monitors[displayId + 1]
    ELSE CASE displayId = 0 -> DP1
           [] displayId = 1 -> DP2
           [] displayId = 2 -> HDMI1
           [] OTHER -> DP1

\* the argument that follows "hyprctl hyprpaper wallpaper "
createHyprlandCommand(path, displayId, mode, monitors) ==
    LET displayName == getHyprlandDisplayName(displayId, monitors)
    IN  IF displayName # <<>>
        THEN <<"\"">> \o displayName \o <<",">> \o path \o <<"\"">>
        ELSE <<"\"">> \o path \o <<"\"">>

\* variant: the set command is issued whatever the preload returned
applyToHyprland_IgnorePreload(s, displayId, env) ==
    IF ~HasKey(s.m_wallpapers, displayId)
    THEN Fail(s, "No wallpaper set for display ", to_string(displayId))
    ELSE
        LET info == ValueOf(s.m_wallpapers, displayId)
            s1   == System(s, "hyprctl hyprpaper preload ", info.path, env.preload)
            s2   == System(s1, "hyprctl monitors -j", <<>>, 0)
            s3   == System(s2, "hyprctl hyprpaper wallpaper ",
                           createHyprlandCommand(info.path, displayId,
                                                 info.mode, env.monitors),
                           env.wallpaper)
        IN  IF env.wallpaper # 0 \/ env.preload # 0
            THEN Fail(s3, "Failed to apply wallpaper to Hyprland", <<>>)
            ELSE [s3 EXCEPT !.ret = TRUE]

applyToHyprland(s, displayId, env) ==
    IF ~HasKey(s.m_wallpapers, displayId)
    THEN Fail(s, "No wallpaper set for display ", to_string(displayId))
    ELSE
        LET info == ValueOf(s.m_wallpapers, displayId)
            s1   == System(s, "hyprctl hyprpaper preload ", info.path, env.preload)
        IN  IF env.preload # 0
            THEN Fail(s1, "Failed to preload wallpaper image", <<>>)
            ELSE
                LET s2 == System(s1, "hyprctl monitors -j", <<>>, 0)
                    s3 == System(s2, "hyprctl hyprpaper wallpaper ",
                                 createHyprlandCommand(info.path, displayId,
                                                       info.mode, env.monitors),
                                 env.wallpaper)
                IN  IF env.wallpaper # 0
                    THEN Fail(s3, "Failed to apply wallpaper to Hyprland", <<>>)
                    ELSE [s3 EXCEPT !.ret = TRUE]

----------------------------------------------------------------------------
(* The header reader of setWallpaper.  A file is the sequence of its       *)
(* bytes, 0..255.  A stream is the file, the read position and the two     *)
(* state bits the reader can set.  An array that a read does not fill      *)
(* keeps what the stack held before, which is the junk argument            *)

PngSignature == <<137, 80, 78, 71, 13, 10, 26, 10>>
IhdrType     == <<73, 72, 68, 82>>
JpegSoi      == <<255, 216>>

\* a PNG file: signature, chunk length, chunk type, width, height
PngFile(widthBytes, heightBytes) ==
    PngSignature \o <<0, 0, 0, 13>> \o IhdrType \o widthBytes \o heightBytes \o
    <<8, 2, 0, 0, 0>>

\* a JPEG file: start of image, an application segment of four bytes, the
\* frame header with its length, precision, height and width
JpegFile(heightBytes, widthBytes) ==
    JpegSoi \o <<255, 224, 0, 4, 0, 0>> \o <<255, 192, 0, 17, 8>> \o
    heightBytes \o widthBytes \o <<3>>

\* the content of the files on disk: a 1920x1080 PNG, an 800x600 JPEG and
\* a text file
FileBytes(path) ==
    IF path = PathA THEN PngFile(<<0, 0, 7, 128>>, <<0, 0, 4, 56>>)
    ELSE IF path = PathB THEN JpegFile(<<2, 88>>, <<3, 32>>)
    ELSE <<120>>

\* std::ifstream file(path, std::ios::binary)
OpenFile(bytes) == [data |-> bytes, pos |-> 0, fail |-> FALSE, eof |-> FALSE]

\* file.good()
Good(f) == ~f.fail /\ ~f.eof

\* a byte of an array that nothing was read into: none of the arrays of
\* the reader is initialised, so the byte holds whatever the stack held in
\* its place, which differs from build to build and from run to run.  It
\* stands for every byte there is
Indeterminate == -1

\* char buf[n] before anything is read into it
Unfilled(n) == [i \in 1..n |-> Indeterminate]

\* file.read(buf, n) into a new array: the stream after the call and the
\* array; a stream that is not good reads nothing, a short read stores the
\* bytes there are and sets both bits
StreamRead(f, n) ==
    IF ~Good(f) THEN [f |-> [f EXCEPT !.fail = TRUE], buf |-> Unfilled(n)]
    ELSE IF f.pos + n <= Len(f.data)
    THEN [f |-> [f EXCEPT !.pos = f.pos + n],
          buf |-> SubSeq(f.data, f.pos + 1, f.pos + n)]
    ELSE [f |-> [f EXCEPT !.pos = IF f.pos > Len(f.data) THEN f.pos ELSE Len(f.data),
                          !.fail = TRUE, !.eof = TRUE],
          buf |-> SubSeq(f.data, f.pos + 1, Len(f.data)) \o
                  SubSeq(Unfilled(n), IF f.pos > Len(f.data) THEN 1
                                      ELSE Len(f.data) - f.pos + 1, n)]

\* the outcomes of comparing an array with a constant: one that holds
\* indeterminate bytes can be equal when the bytes read are, and can differ
ArrayEquals(buf, constant) ==
    IF buf = constant THEN {TRUE}
    ELSE IF \A i \in 1..Len(buf) : buf[i] \in {constant[i], Indeterminate}
    THEN {TRUE, FALSE}
    ELSE {FALSE}

\* file.seekg(target) and file.seekg(target - pos, std::ios::cur): the end
\* bit is cleared, a failed stream stays where it is, a negative position
\* fails
StreamSeek(f, target) ==
    IF f.fail THEN [f EXCEPT !.eof = FALSE]
    ELSE IF target < 0 THEN [f EXCEPT !.eof = FALSE, !.fail = TRUE]
    ELSE [f EXCEPT !.eof = FALSE, !.pos = target]

\* (b[0] << 24) | (b[1] << 16) | (b[2] << 8) | b[3] and (b[0] << 8) | b[1] on
\* arrays of char, which is signed: every byte is sign-extended to int
\* before it is shifted, so a byte above 127 sets all the bits to its left
BigEndianInt(bytes) ==
    LET Ored(i) == IF \E j \in (i + 1)..Len(bytes) : bytes[j] > 127
                   THEN 255 ELSE bytes[i]
        Top     == IF Ored(1) > 127 THEN Ored(1) - 256 ELSE Ored(1)
    IN  IF Len(bytes) = 4
        THEN Top * 16777216 + Ored(2) * 65536 + Ored(3) * 256 + Ored(4)
        ELSE Top * 256 + Ored(2)

\* an int that was assigned: one computed from bytes that were read, and
\* one computed from an array that holds indeterminate bytes, which stands
\* for every int the array can spell
Determined(v) == [known |-> TRUE, v |-> v]
Undetermined(bytes) == [known |-> FALSE, bytes |-> bytes]

\* the int the conversion makes of an array: an indeterminate byte leaves
\* it open unless a byte above 127 to its right sets all its bits
IntOf(bytes) ==
    IF \A i \in 1..Len(bytes) :
           bytes[i] = Indeterminate => \E j \in (i + 1)..Len(bytes) : bytes[j] > 127
    THEN Determined(BigEndianInt(bytes))
    ELSE Undetermined(bytes)

\* the array can spell n: with the bytes of n in the places of its
\* indeterminate bytes the conversion gives n
Spells(bytes, n) ==
    BigEndianInt([i \in 1..Len(bytes) |->
                     IF bytes[i] = Indeterminate
                     THEN (n \div (256 ^ (Len(bytes) - i))) % 256
                     ELSE bytes[i]]) = n

\* n is a value the int can have
CanBe(x, n) == IF x.known THEN x.v = n ELSE Spells(x.bytes, n)

\* n is the value the int has, whatever the arrays held
MustBe(x, n) == x.known /\ x.v = n

\* what the reader holds: the stream, the dimensions found so far and
\* whether the marker scan is under way
SniffState(f, width, height, scanning) ==
    [f |-> f, width |-> width, height |-> height, scanning |-> scanning]

\* the reader finds nothing: the defaults stay
SniffNothing(f, scanning) ==
    SniffState(f, Determined(DefaultWidth), Determined(DefaultHeight), scanning)

\* the branch of a PNG file: the chunk type is compared whether it was read
\* or not, and the size fields are converted whether they were read or not
SniffPng(f) ==
    LET chunkLength == StreamRead(StreamSeek(f, 8), 4)
        chunkType   == StreamRead(chunkLength.f, 4)
        widthBytes  == StreamRead(chunkType.f, 4)
        heightBytes == StreamRead(widthBytes.f, 4)
    IN  { IF isIhdr
          THEN SniffState(heightBytes.f, IntOf(widthBytes.buf),
                          IntOf(heightBytes.buf), FALSE)
          ELSE SniffNothing(chunkType.f, FALSE) :
          isIhdr \in ArrayEquals(chunkType.buf, IhdrType) }

\* the branch of every other file, up to the marker scan
SniffJpeg(f) ==
    LET jpegHeader == StreamRead(StreamSeek(f, 0), 2)
    IN  { IF isSoi
          THEN SniffNothing(StreamSeek(jpegHeader.f, 2), TRUE)
          ELSE SniffNothing(jpegHeader.f, FALSE) :
          isSoi \in ArrayEquals(jpegHeader.buf, JpegSoi) }

\* the states the reader can be in when it reaches the marker scan or
\* passes it by
SniffHeader(bytes) ==
    LET header == StreamRead(OpenFile(bytes), 8)
    IN  UNION { IF isPng THEN SniffPng(header.f) ELSE SniffJpeg(header.f) :
                isPng \in ArrayEquals(header.buf, PngSignature) }

\* what the tests of a marker can make of it: a frame header, another
\* segment, or no marker
MarkerKinds(marker) ==
    {kind \in {"frame", "segment", "other"} :
        \/ /\ kind = "frame"
           /\ marker[1] \in {255, Indeterminate}
           /\ marker[2] \in (192..207) \cup {Indeterminate}
        \/ /\ kind = "segment"
           /\ marker[1] \in {255, Indeterminate}
           /\ marker[2] \notin 192..207
        \/ /\ kind = "other"
           /\ marker[1] # 255}

\* the frame header after its marker
SniffFrame(f) ==
    LET heightBytes == StreamRead(StreamSeek(f, f.pos + 3), 2)
        widthBytes  == StreamRead(heightBytes.f, 2)
    IN  SniffState(widthBytes.f, IntOf(widthBytes.buf),
                   IntOf(heightBytes.buf), FALSE)

\* the stream after the length of a segment was read and the segment
\* skipped: a length that was not read leaves a stream that does not move
SniffSegment(f) ==
    LET lengthBytes == StreamRead(f, 2)
    IN  IF lengthBytes.f.fail THEN StreamSeek(lengthBytes.f, lengthBytes.f.pos)
        ELSE StreamSeek(lengthBytes.f,
                        lengthBytes.f.pos + BigEndianInt(lengthBytes.buf) - 2)

\* one turn of the marker scan, the test of the loop and its body: the
\* states it can leave
SniffMarker(s) ==
    IF ~Good(s.f) THEN {[s EXCEPT !.scanning = FALSE]}
    ELSE LET marker == StreamRead(s.f, 2)
         IN  { IF kind = "frame" THEN SniffFrame(marker.f)
               ELSE IF kind = "segment"
               THEN [s EXCEPT !.f = SniffSegment(marker.f)]
               ELSE [s EXCEPT !.f = marker.f] :
               kind \in MarkerKinds(marker.buf) }

\* the marker scan to its end
RECURSIVE SniffScan(_)
SniffScan(states) ==
    IF \A s \in states : ~s.scanning THEN states
    ELSE SniffScan(UNION { IF s.scanning THEN SniffMarker(s) ELSE {s} :
                           s \in states })

\* the dimensions the header reader finds in each file on disk: each is
\* a whole image or a file of one byte that is no signature's first, and
\* is measured the same whatever the arrays held
SniffedDimensions ==
    [p \in ExistingFiles |->
        LET s == CHOOSE s \in SniffScan(SniffHeader(FileBytes(p))) : TRUE
        IN  [width |-> s.width.v, height |-> s.height.v]]

\* the dimensions the header reader leaves for the file: the defaults stay
\* when the file cannot be opened
ImageDimensions(path) ==
    IF FileExists(path) THEN SniffedDimensions[path]
    ELSE [width |-> DefaultWidth, height |-> DefaultHeight]

\* the WallpaperInfo that setWallpaper builds for an accepted path
NewWallpaperInfo(path, displayId) ==
    [path      |-> path,
     displayId |-> displayId,
     mode      |-> "Scale",
     width     |-> ImageDimensions(path).width,
     height    |-> ImageDimensions(path).height,
     format    |-> ToLowerStr(Extension(path))]

\* variant: the record is kept only when the compositor accepted it
setWallpaper_StoreOnSuccess(s, path, displayId, env) ==
    LET s0 == clearError(s)
    IN  IF path = <<>>
        THEN FailCode(s0, "Wallpaper path cannot be empty", <<>>, "InvalidPath")
        ELSE IF ~isValidImageFile(path)
        THEN FailCode(s0, "Invalid image file: ", path, "UnsupportedFormat")
        ELSE IF ~FileExists(path)
        THEN FailCode(s0, "File not found: ", path, "FileNotFound")
        ELSE
            LET info == NewWallpaperInfo(path, displayId)
                s1 == [s0 EXCEPT !.m_wallpapers = MapAssign(@, displayId, info),
                                 !.m_cacheValid = FALSE]
            IN
                LET r == applyToHyprland(s1, displayId, env)
                IN  IF r.ret THEN r ELSE [r EXCEPT !.m_wallpapers = s0.m_wallpapers]

setWallpaper(s, path, displayId, env) ==
    LET s0 == clearError(s)
    IN  IF path = <<>>
        THEN FailCode(s0, "Wallpaper path cannot be empty", <<>>, "InvalidPath")
        ELSE IF ~isValidImageFile(path)
        THEN FailCode(s0, "Invalid image file: ", path, "UnsupportedFormat")
        ELSE IF ~FileExists(path)
        THEN FailCode(s0, "File not found: ", path, "FileNotFound")
        ELSE
            LET info == NewWallpaperInfo(path, displayId)
                s1 == [s0 EXCEPT !.m_wallpapers = MapAssign(@, displayId, info),
                                 !.m_cacheValid = FALSE]
            IN  applyToHyprland(s1, displayId, env)

setWallpaperAllDisplays(s, path, env) ==
    LET s0 == clearError(s)
    IN  IF path = <<>>
        THEN Fail(s0, "Wallpaper path cannot be empty", <<>>)
        ELSE IF ~isValidImageFile(path)
        THEN Fail(s0, "Invalid image file: ", path)
        ELSE setWallpaper(s0, path, 0, env)

\* variant: the record is erased only when the unload succeeded
removeWallpaper_Rollback(s, displayId, status) ==
    LET s0 == clearError(s)
    IN  IF ~HasKey(s0.m_wallpapers, displayId)
        THEN Fail(s0, "No wallpaper set for display ", to_string(displayId))
        ELSE
            LET s2 == System(s0, "hyprctl hyprpaper unload all", <<>>, status)
            IN  IF status # 0
                THEN Fail(s2, "Failed to remove wallpaper from Hyprland", <<>>)
                ELSE [s2 EXCEPT !.m_wallpapers = MapErase(@, displayId),
                                !.m_cacheValid = FALSE,
                                !.ret = TRUE]

removeWallpaper(s, displayId, status) ==
    LET s0 == clearError(s)
    IN  IF ~HasKey(s0.m_wallpapers, displayId)
        THEN Fail(s0, "No wallpaper set for display ", to_string(displayId))
        ELSE
            LET s1 == [s0 EXCEPT !.m_wallpapers = MapErase(@, displayId),
                                 !.m_cacheValid = FALSE]
                s2 == System(s1, "hyprctl hyprpaper unload all", <<>>, status)
            IN  IF status # 0
                THEN Fail(s2, "Failed to remove wallpaper from Hyprland", <<>>)
                ELSE [s2 EXCEPT !.ret = TRUE]

removeAllWallpapers(s, status) ==
    LET s0 == clearError(s)
        s1 == [s0 EXCEPT !.m_wallpapers = <<>>, !.m_cacheValid = FALSE]
        s2 == System(s1, "hyprctl hyprpaper unload all", <<>>, status)
    IN  IF status # 0
        THEN Fail(s2, "Failed to remove all wallpapers from Hyprland", <<>>)
        ELSE [s2 EXCEPT !.ret = TRUE]

\* variant: the stored mode is put back when the compositor refused it
setWallpaperMode_RevertOnFailure(s, displayId, mode, env) ==
    LET s0 == clearError(s)
    IN  IF ~HasKey(s0.m_wallpapers, displayId)
        THEN Fail(s0, "No wallpaper set for display ", to_string(displayId))
        ELSE
            LET i  == IndexOfKey(s0.m_wallpapers, displayId)
                s1 == [s0 EXCEPT !.m_wallpapers[i].val.mode = mode,
                                 !.m_cacheValid = FALSE]
                r  == applyToHyprland(s1, displayId, env)
            IN  IF r.ret THEN r ELSE [r EXCEPT !.m_wallpapers = s0.m_wallpapers]

\* variant: the size of the placement is reset together with the mode
setWallpaperMode_ResetSize(s, displayId, mode, env) ==
    LET s0 == clearError(s)
    IN  IF ~HasKey(s0.m_wallpapers, displayId)
        THEN Fail(s0, "No wallpaper set for display ", to_string(displayId))
        ELSE
            LET i  == IndexOfKey(s0.m_wallpapers, displayId)
                s1 == [s0 EXCEPT !.m_wallpapers[i].val.mode = mode,
                                 !.m_wallpapers[i].val.width = DefaultWidth,
                                 !.m_wallpapers[i].val.height = DefaultHeight,
                                 !.m_cacheValid = FALSE]
            IN  applyToHyprland(s1, displayId, env)

\* variant: the mode is stored but the compositor is not told
setWallpaperMode_NoReapply(s, displayId, mode, env) ==
    LET s0 == clearError(s)
    IN  IF ~HasKey(s0.m_wallpapers, displayId)
        THEN Fail(s0, "No wallpaper set for display ", to_string(displayId))
        ELSE
            LET i == IndexOfKey(s0.m_wallpapers, displayId)
            IN  [s0 EXCEPT !.m_wallpapers[i].val.mode = mode,
                           !.m_cacheValid = FALSE,
                           !.ret = TRUE]

setWallpaperMode(s, displayId, mode, env) ==
    LET s0 == clearError(s)
    IN  IF ~HasKey(s0.m_wallpapers, displayId)
        THEN Fail(s0, "No wallpaper set for display ", to_string(displayId))
        ELSE
            LET i  == IndexOfKey(s0.m_wallpapers, displayId)
                s1 == [s0 EXCEPT !.m_wallpapers[i].val.mode = mode,
                                 !.m_cacheValid = FALSE]
            IN  applyToHyprland(s1, displayId, env)

\* getWallpaperMode(displayId) on the placement map
getWallpaperMode(nodes, displayId) ==
    IF ~HasKey(nodes, displayId) THEN "Scale" ELSE ValueOf(nodes, displayId).mode

\* variant: a list that was built once is never built again
getAllWallpapers_BuildOnce(s) ==
    IF ~s.m_cacheValid /\ s.m_allWallpapersCache = <<>>
    THEN [s EXCEPT !.m_allWallpapersCache =
                       [i \in 1..Len(s.m_wallpapers) |-> s.m_wallpapers[i].val],
                   !.m_cacheValid = TRUE,
                   !.ret = TRUE]
    ELSE [s EXCEPT !.m_cacheValid = TRUE, !.ret = TRUE]

\* variant: the validity flag is tested the wrong way round
getAllWallpapers_InvertedFlag(s) ==
    IF s.m_cacheValid
    THEN [s EXCEPT !.m_allWallpapersCache =
                       [i \in 1..Len(s.m_wallpapers) |-> s.m_wallpapers[i].val],
                   !.m_cacheValid = TRUE,
                   !.ret = TRUE]
    ELSE [s EXCEPT !.ret = TRUE]

getAllWallpapers(s) ==
    IF ~s.m_cacheValid
    THEN [s EXCEPT !.m_allWallpapersCache =
                       [i \in 1..Len(s.m_wallpapers) |-> s.m_wallpapers[i].val],
                   !.m_cacheValid = TRUE,
                   !.ret = TRUE]
    ELSE [s EXCEPT !.ret = TRUE]

\* the loop of applyToAllHyprlandDisplays from node i on; success so far is ok
RECURSIVE applyLoop(_, _, _, _)
applyLoop(s, i, ok, envs) ==
    IF i > Len(s.m_wallpapers)
    THEN [s EXCEPT !.ret = ok]
    ELSE LET k  == s.m_wallpapers[i].key
             s1 == applyToHyprland(s, k, envs[k])
         IN  applyLoop(s1, i + 1, ok /\ s1.ret, envs)

applyToAllHyprlandDisplays(s, envs) ==
    applyLoop(clearError(s), 1, TRUE, envs)

----------------------------------------------------------------------------
(* Text helpers of the display detection *)

\* the vertical tab, character 11, which has no escape in a string
VerticalTab == ""

DigitSet    == {DigitChars[i] : i \in 1..Len(DigitChars)}
LetterSet   == {UpperChars[i] : i \in 1..Len(UpperChars)} \cup
               {LowerChars[i] : i \in 1..Len(LowerChars)}
\* the regex classes \w, \s and [\d.]
WordSet     == LetterSet \cup DigitSet \cup {"_"}
SpaceSet    == {" ", "\t", "\n", "\r", "\f", VerticalTab}
DigitDotSet == DigitSet \cup {"."}

DigitValue(c) == CHOOSE d \in 0..9 : DigitChars[d + 1] = c

\* position of the first occurrence of c in s, 0 if there is none
IndexOf(s, c) ==
    IF \E i \in 1..Len(s) : s[i] = c
    THEN CHOOSE i \in 1..Len(s) : s[i] = c /\ \A j \in 1..(i - 1) : s[j] # c
    ELSE 0

\* the outcome of a call that returns v, and of one that leaves by an
\* exception instead
Got(v) == [threw |-> FALSE, what |-> "", v |-> v]
Threw(what) == [threw |-> TRUE, what |-> what, v |-> 0]

\* the number of digits s has from position from on
DigitRun(s, from) ==
    CHOOSE n \in 0..(Len(s) - from + 1) :
        /\ \A i \in from..(from + n - 1) : s[i] \in DigitSet
        /\ from + n > Len(s) \/ s[from + n] \notin DigitSet

\* the values of the n digits of s from position from on
DigitsOf(s, from, n) == [i \in 1..n |-> DigitValue(s[from + i - 1])]

\* a digit sequence without its leading zeros: <<>> is zero
StripZeros(d) ==
    LET z == CHOOSE k \in 0..Len(d) :
                 /\ \A i \in 1..k : d[i] = 0
                 /\ k = Len(d) \/ d[k + 1] # 0
    IN  SubSeq(d, z + 1, Len(d))

DigitAt(d, i) == IF i <= Len(d) THEN d[i] ELSE 0

\* the least of a set of naturals that is not empty
Least(S) == CHOOSE i \in S : \A j \in S : i <= j

\* 0.a < 0.b, for the digits a and b of two decimal fractions: at the
\* first place where they differ a has the lesser digit
FracLess(a, b) ==
    LET differ == {i \in 1..Len(b) : DigitAt(a, i) # b[i]}
    IN  differ # {} /\ DigitAt(a, Least(differ)) < b[Least(differ)]

\* a < b, for the digits of two naturals without leading zeros
NatLess(a, b) == Len(a) < Len(b) \/ (Len(a) = Len(b) /\ FracLess(a, b))

\* the natural a digit sequence of at most INT_MAX reads as
RECURSIVE NatOf(_)
NatOf(d) ==
    IF d = <<>> THEN 0 ELSE 10 * NatOf(SubSeq(d, 1, Len(d) - 1)) + d[Len(d)]

IntMaxDigits == <<2, 1, 4, 7, 4, 8, 3, 6, 4, 7>>
IntMinDigits == <<2, 1, 4, 7, 4, 8, 3, 6, 4, 8>>

\* std::stoi(s): strtol in base 10 skips leading space, reads a sign and
\* the digits after it and ignores what follows them; std::invalid_argument
\* when there is no digit to read, std::out_of_range when the number is
\* not an int
stoi(s) ==
    LET sp    == CHOOSE k \in 0..Len(s) :
                     /\ \A i \in 1..k : s[i] \in SpaceSet
                     /\ k = Len(s) \/ s[k + 1] \notin SpaceSet
        sign  == sp < Len(s) /\ s[sp + 1] \in {"+", "-"}
        minus == sign /\ s[sp + 1] = "-"
        from  == IF sign THEN sp + 2 ELSE sp + 1
        n     == DigitRun(s, from)
        d     == StripZeros(DigitsOf(s, from, n))
    IN  IF n = 0 THEN Threw("std::invalid_argument")
        ELSE IF minus
        THEN IF NatLess(IntMinDigits, d) THEN Threw("std::out_of_range")
             ELSE IF d = IntMinDigits THEN Got(INT_MIN)
             ELSE Got(0 - NatOf(d))
        ELSE IF NatLess(IntMaxDigits, d) THEN Threw("std::out_of_range")
        ELSE Got(NatOf(d))

\* the digits of 2^1024 - 2^970, the least number that rounds to no double
DoubleOverflowDigits ==
    <<1, 7, 9, 7, 6, 9, 3, 1, 3, 4, 8, 6, 2, 3, 1, 5, 8, 0, 7, 9, 3, 7, 2, 8,
      9, 7, 1, 4, 0, 5, 3, 0, 3, 4, 1, 5, 0, 7, 9, 9, 3, 4, 1, 3, 2, 7, 1, 0,
      0, 3, 7, 8, 2, 6, 9, 3, 6, 1, 7, 3, 7, 7, 8, 9, 8, 0, 4, 4, 4, 9, 6, 8,
      2, 9, 2, 7, 6, 4, 7, 5, 0, 9, 4, 6, 6, 4, 9, 0, 1, 7, 9, 7, 7, 5, 8, 7,
      2, 0, 7, 0, 9, 6, 3, 3, 0, 2, 8, 6, 4, 1, 6, 6, 9, 2, 8, 8, 7, 9, 1, 0,
      9, 4, 6, 5, 5, 5, 5, 4, 7, 8, 5, 1, 9, 4, 0, 4, 0, 2, 6, 3, 0, 6, 5, 7,
      4, 8, 8, 6, 7, 1, 5, 0, 5, 8, 2, 0, 6, 8, 1, 9, 0, 8, 9, 0, 2, 0, 0, 0,
      7, 0, 8, 3, 8, 3, 6, 7, 6, 2, 7, 3, 8, 5, 4, 8, 4, 5, 8, 1, 7, 7, 1, 1,
      5, 3, 1, 7, 6, 4, 4, 7, 5, 7, 3, 0, 2, 7, 0, 0, 6, 9, 8, 5, 5, 5, 7, 1,
      3, 6, 6, 9, 5, 9, 6, 2, 2, 8, 4, 2, 9, 1, 4, 8, 1, 9, 8, 6, 0, 8, 3, 4,
      9, 3, 6, 4, 7, 5, 2, 9, 2, 7, 1, 9, 0, 7, 4, 1, 6, 8, 4, 4, 4, 3, 6, 5,
      5, 1, 0, 7, 0, 4, 3, 4, 2, 7, 1, 1, 5, 5, 9, 6, 9, 9, 5, 0, 8, 0, 9, 3,
      0, 4, 2, 8, 8, 0, 1, 7, 7, 9, 0, 4, 1, 7, 4, 4, 9, 7, 7, 9, 2>>

\* the digits, after the 307 zeros that follow the point, of
\* 2^-1022 - 2^-1076: strtod reports a range error for a number below it
\* that is not zero and that no double is equal to
DoubleUnderflowDigits ==
    [i \in 1..307 |-> 0] \o
    <<2, 2, 2, 5, 0, 7, 3, 8, 5, 8, 5, 0, 7, 2, 0, 1, 2, 5, 9, 5, 7, 3, 8, 2,
      1, 2, 5, 7, 0, 2, 0, 7, 6, 8, 0, 2, 0, 0, 7, 7, 0, 1, 7, 7, 6, 3, 4, 0,
      6, 9, 8, 8, 7, 3, 9, 2, 8, 8, 3, 7, 6, 7, 6, 3, 3, 0, 6, 0, 1, 3, 3, 2,
      8, 4, 1, 7, 4, 9, 7, 5, 7, 0, 6, 8, 5, 4, 0, 6, 3, 4, 1, 4, 6, 0, 3, 2,
      3, 0, 5, 4, 2, 3, 9, 1, 0, 8, 2, 4, 9, 3, 2, 2, 0, 3, 7, 7, 1, 6, 0, 5,
      6, 0, 1, 1, 2, 6, 0, 3, 0, 0, 1, 2, 4, 0, 2, 7, 3, 7, 7, 1, 9, 1, 8, 3,
      4, 7, 9, 6, 3, 9, 2, 7, 6, 9, 7, 2, 1, 4, 3, 7, 0, 7, 8, 9, 9, 0, 8, 3,
      6, 5, 3, 2, 7, 9, 8, 9, 0, 4, 4, 3, 1, 8, 4, 9, 8, 6, 4, 7, 3, 2, 5, 0,
      4, 1, 1, 0, 4, 6, 7, 2, 7, 3, 0, 8, 4, 6, 9, 6, 9, 7, 7, 8, 1, 2, 0, 2,
      8, 7, 1, 6, 2, 3, 6, 5, 5, 6, 9, 6, 7, 9, 3, 5, 8, 9, 5, 6, 5, 7, 3, 5,
      1, 8, 6, 8, 2, 0, 2, 7, 8, 8, 7, 2, 2, 4, 9, 4, 8, 1, 1, 5, 3, 0, 1, 5,
      1, 3, 1, 7, 6, 1, 6, 3, 6, 6, 3, 3, 3, 2, 9, 6, 9, 4, 5, 9, 5, 3, 4, 3,
      1, 3, 6, 9, 2, 2, 2, 1, 9, 0, 3, 0, 8, 0, 5, 3, 7, 8, 7, 6, 9, 4, 9, 4,
      0, 4, 1, 1, 7, 4, 3, 7, 0, 7, 8, 0, 9, 8, 2, 2, 5, 8, 0, 7, 4, 0, 9, 8,
      8, 8, 8, 0, 5, 5, 1, 6, 1, 7, 9, 0, 7, 1, 1, 9, 0, 0, 2, 1, 4, 8, 7, 5,
      9, 4, 0, 1, 9, 1, 5, 8, 9, 2, 1, 5, 1, 4, 8, 2, 0, 8, 1, 9, 2, 4, 8, 9,
      0, 2, 6, 3, 3, 1, 2, 7, 0, 2, 2, 5, 7, 3, 2, 1, 1, 8, 4, 7, 5, 0, 7, 7,
      1, 8, 6, 1, 4, 5, 2, 2, 2, 4, 0, 9, 6, 2, 1, 2, 6, 3, 1, 6, 9, 8, 6, 2,
      3, 6, 3, 8, 7, 7, 6, 8, 6, 0, 1, 4, 1, 8, 3, 8, 0, 6, 1, 1, 6, 5, 7, 0,
      2, 2, 6, 3, 7, 7, 6, 6, 4, 0, 9, 0, 7, 6, 4, 8, 1, 9, 4, 4, 3, 5, 5, 3,
      6, 0, 5, 4, 3, 3, 6, 3, 7, 3, 7, 2, 7, 9, 7, 8, 0, 1, 4, 5, 9, 3, 1, 0,
      0, 6, 7, 8, 6, 6, 0, 4, 9, 2, 1, 1, 7, 5, 1, 6, 7, 8, 4, 9, 0, 8, 5, 2,
      1, 5, 1, 1, 1, 5, 9, 7, 6, 7, 3, 7, 3, 3, 2, 3, 3, 3, 9, 1, 9, 1, 9, 8,
      3, 2, 2, 1, 3, 2, 6, 8, 5, 3, 5, 1, 9, 1, 2, 8, 3, 3, 8, 7, 8, 4, 8, 9,
      1, 9, 1, 3, 3, 8, 0, 7, 1, 5, 5, 3, 2, 8, 4, 0, 9, 7, 1, 0, 0, 3, 8, 7,
      8, 9, 9, 3, 6, 2, 7, 2, 4, 0, 6, 8, 6, 7, 2, 6, 6, 6, 3, 3, 9, 7, 6, 0,
      9, 1, 4, 9, 8, 3, 4, 3, 4, 9, 8, 3, 1, 3, 4, 4, 8, 7, 9, 6, 7, 6, 6, 5,
      3, 4, 6, 9, 0, 9, 1, 5, 5, 9, 1, 3, 0, 1, 8, 9, 8, 9, 9, 1, 1, 4, 5, 2,
      1, 1, 2, 4, 7, 8, 2, 3, 8, 0, 5, 4, 7, 3, 4, 1, 0, 0, 9, 7, 7, 5, 5, 9,
      0, 6, 7, 6, 0, 9, 6, 2, 9, 1, 5, 8, 5, 9, 4, 9, 6, 9, 7, 7, 4, 3, 0, 1,
      8, 9, 3, 0, 8, 1, 1, 3, 8, 5, 8, 6, 9, 2, 7, 2, 8, 1, 1, 5, 3, 2, 9, 3,
      7, 3, 3, 9, 5, 0, 7, 0, 4, 3, 3, 6, 1, 6, 6, 3, 8, 1, 8, 3, 5, 9, 3, 7,
      5>>

\* the places the least double has after the point: 2^-1074
DenormalPlaces == 1074

\* a fifth of the natural with the digits d, which five divides: the digit
\* before each one leaves its remainder to it
DivFive(d) ==
    SubSeq([i \in 1..Len(d) |->
               (10 * (IF i = 1 THEN 0 ELSE d[i - 1] % 5) + d[i]) \div 5],
           1, Len(d))

\* the natural the last n digits of d read as, n at most 8
LastDigits(d, n) ==
    LET at(i) == IF i < Len(d) THEN d[Len(d) - i] ELSE 0
        p(i)  == IF i < n THEN at(i) * 10 ^ i ELSE 0
    IN  p(0) + p(1) + p(2) + p(3) + p(4) + p(5) + p(6) + p(7)

\* 5^k divides the natural with the digits d: eight fives at a time, which
\* the last eight digits show
RECURSIVE FivesDivide(_, _)
FivesDivide(d, k) ==
    IF k <= 8 THEN LastDigits(d, k) % (5 ^ k) = 0
    ELSE /\ LastDigits(d, 8) % (5 ^ 8) = 0
         /\ FivesDivide(DivFive(DivFive(DivFive(DivFive(
                             DivFive(DivFive(DivFive(DivFive(d)))))))),
                         k - 8)

\* 0.fr is a multiple of 2^-1074: with k places, its digits read as a
\* natural that 5^k divides.  The doubles below 2^-1022 are these
ExactDenormal(fr) ==
    LET k == CHOOSE n \in 0..Len(fr) :
                 /\ \A i \in (n + 1)..Len(fr) : fr[i] = 0
                 /\ n = 0 \/ fr[n] # 0
    IN  /\ k <= DenormalPlaces
        /\ FivesDivide(StripZeros(SubSeq(fr, 1, k)), k)

\* the number of bits of n, 0 for n = 0
BitLength(n) ==
    CHOOSE k \in 0..31 :
        /\ k = 0 \/ n \div (2 ^ (k - 1)) >= 1
        /\ k = 31 \/ n \div (2 ^ k) = 0

\* the digits of 1 - 2^-(54 - b), for b = 0..31: the doubles just below
\* n + 1 are 2^(b - 53) apart when n has b bits, so that n + 1 - 2^(b - 54)
\* is half way between n + 1 and the double below it
HalfWayDigits ==
    <<
      <<9, 9, 9, 9, 9, 9, 9, 9, 9, 9, 9, 9, 9, 9, 9, 9, 4, 4, 4, 8, 8, 8, 4,
        8, 7, 6, 8, 7, 4, 2, 1, 7, 2, 9, 7, 8, 8, 1, 8, 4, 1, 6, 5, 9, 5, 4,
        5, 8, 9, 8, 4, 3, 7, 5>>,
      <<9, 9, 9, 9, 9, 9, 9, 9, 9, 9, 9, 9, 9, 9, 9, 8, 8, 8, 9, 7, 7, 6, 9,
        7, 5, 3, 7, 4, 8, 4, 3, 4, 5, 9, 5, 7, 6, 3, 6, 8, 3, 3, 1, 9, 0, 9,
        1, 7, 9, 6, 8, 7, 5>>,
      <<9, 9, 9, 9, 9, 9, 9, 9, 9, 9, 9, 9, 9, 9, 9, 7, 7, 7, 9, 5, 5, 3, 9,
        5, 0, 7, 4, 9, 6, 8, 6, 9, 1, 9, 1, 5, 2, 7, 3, 6, 6, 6, 3, 8, 1, 8,
        3, 5, 9, 3, 7, 5>>,
      <<9, 9, 9, 9, 9, 9, 9, 9, 9, 9, 9, 9, 9, 9, 9, 5, 5, 5, 9, 1, 0, 7, 9,
        0, 1, 4, 9, 9, 3, 7, 3, 8, 3, 8, 3, 0, 5, 4, 7, 3, 3, 2, 7, 6, 3, 6,
        7, 1, 8, 7, 5>>,
      <<9, 9, 9, 9, 9, 9, 9, 9, 9, 9, 9, 9, 9, 9, 9, 1, 1, 1, 8, 2, 1, 5, 8,
        0, 2, 9, 9, 8, 7, 4, 7, 6, 7, 6, 6, 1, 0, 9, 4, 6, 6, 5, 5, 2, 7, 3,
        4, 3, 7, 5>>,
      <<9, 9, 9, 9, 9, 9, 9, 9, 9, 9, 9, 9, 9, 9, 8, 2, 2, 3, 6, 4, 3, 1, 6,
        0, 5, 9, 9, 7, 4, 9, 5, 3, 5, 3, 2, 2, 1, 8, 9, 3, 3, 1, 0, 5, 4, 6,
        8, 7, 5>>,
      <<9, 9, 9, 9, 9, 9, 9, 9, 9, 9, 9, 9, 9, 9, 6, 4, 4, 7, 2, 8, 6, 3, 2,
        1, 1, 9, 9, 4, 9, 9, 0, 7, 0, 6, 4, 4, 3, 7, 8, 6, 6, 2, 1, 0, 9, 3,
        7, 5>>,
      <<9, 9, 9, 9, 9, 9, 9, 9, 9, 9, 9, 9, 9, 9, 2, 8, 9, 4, 5, 7, 2, 6, 4,
        2, 3, 9, 8, 9, 9, 8, 1, 4, 1, 2, 8, 8, 7, 5, 7, 3, 2, 4, 2, 1, 8, 7,
        5>>,
      <<9, 9, 9, 9, 9, 9, 9, 9, 9, 9, 9, 9, 9, 8, 5, 7, 8, 9, 1, 4, 5, 2, 8,
        4, 7, 9, 7, 9, 9, 6, 2, 8, 2, 5, 7, 7, 5, 1, 4, 6, 4, 8, 4, 3, 7,
        5>>,
      <<9, 9, 9, 9, 9, 9, 9, 9, 9, 9, 9, 9, 9, 7, 1, 5, 7, 8, 2, 9, 0, 5, 6,
        9, 5, 9, 5, 9, 9, 2, 5, 6, 5, 1, 5, 5, 0, 2, 9, 2, 9, 6, 8, 7, 5>>,
      <<9, 9, 9, 9, 9, 9, 9, 9, 9, 9, 9, 9, 9, 4, 3, 1, 5, 6, 5, 8, 1, 1, 3,
        9, 1, 9, 1, 9, 8, 5, 1, 3, 0, 3, 1, 0, 0, 5, 8, 5, 9, 3, 7, 5>>,
      <<9, 9, 9, 9, 9, 9, 9, 9, 9, 9, 9, 9, 8, 8, 6, 3, 1, 3, 1, 6, 2, 2, 7,
        8, 3, 8, 3, 9, 7, 0, 2, 6, 0, 6, 2, 0, 1, 1, 7, 1, 8, 7, 5>>,
      <<9, 9, 9, 9, 9, 9, 9, 9, 9, 9, 9, 9, 7, 7, 2, 6, 2, 6, 3, 2, 4, 5, 5,
        6, 7, 6, 7, 9, 4, 0, 5, 2, 1, 2, 4, 0, 2, 3, 4, 3, 7, 5>>,
      <<9, 9, 9, 9, 9, 9, 9, 9, 9, 9, 9, 9, 5, 4, 5, 2, 5, 2, 6, 4, 9, 1, 1,
        3, 5, 3, 5, 8, 8, 1, 0, 4, 2, 4, 8, 0, 4, 6, 8, 7, 5>>,
      <<9, 9, 9, 9, 9, 9, 9, 9, 9, 9, 9, 9, 0, 9, 0, 5, 0, 5, 2, 9, 8, 2, 2,
        7, 0, 7, 1, 7, 6, 2, 0, 8, 4, 9, 6, 0, 9, 3, 7, 5>>,
      <<9, 9, 9, 9, 9, 9, 9, 9, 9, 9, 9, 8, 1, 8, 1, 0, 1, 0, 5, 9, 6, 4, 5,
        4, 1, 4, 3, 5, 2, 4, 1, 6, 9, 9, 2, 1, 8, 7, 5>>,
      <<9, 9, 9, 9, 9, 9, 9, 9, 9, 9, 9, 6, 3, 6, 2, 0, 2, 1, 1, 9, 2, 9, 0,
        8, 2, 8, 7, 0, 4, 8, 3, 3, 9, 8, 4, 3, 7, 5>>,
      <<9, 9, 9, 9, 9, 9, 9, 9, 9, 9, 9, 2, 7, 2, 4, 0, 4, 2, 3, 8, 5, 8, 1,
        6, 5, 7, 4, 0, 9, 6, 6, 7, 9, 6, 8, 7, 5>>,
      <<9, 9, 9, 9, 9, 9, 9, 9, 9, 9, 8, 5, 4, 4, 8, 0, 8, 4, 7, 7, 1, 6, 3,
        3, 1, 4, 8, 1, 9, 3, 3, 5, 9, 3, 7, 5>>,
      <<9, 9, 9, 9, 9, 9, 9, 9, 9, 9, 7, 0, 8, 9, 6, 1, 6, 9, 5, 4, 3, 2, 6,
        6, 2, 9, 6, 3, 8, 6, 7, 1, 8, 7, 5>>,
      <<9, 9, 9, 9, 9, 9, 9, 9, 9, 9, 4, 1, 7, 9, 2, 3, 3, 9, 0, 8, 6, 5, 3,
        2, 5, 9, 2, 7, 7, 3, 4, 3, 7, 5>>,
      <<9, 9, 9, 9, 9, 9, 9, 9, 9, 8, 8, 3, 5, 8, 4, 6, 7, 8, 1, 7, 3, 0, 6,
        5, 1, 8, 5, 5, 4, 6, 8, 7, 5>>,
      <<9, 9, 9, 9, 9, 9, 9, 9, 9, 7, 6, 7, 1, 6, 9, 3, 5, 6, 3, 4, 6, 1, 3,
        0, 3, 7, 1, 0, 9, 3, 7, 5>>,
      <<9, 9, 9, 9, 9, 9, 9, 9, 9, 5, 3, 4, 3, 3, 8, 7, 1, 2, 6, 9, 2, 2, 6,
        0, 7, 4, 2, 1, 8, 7, 5>>,
      <<9, 9, 9, 9, 9, 9, 9, 9, 9, 0, 6, 8, 6, 7, 7, 4, 2, 5, 3, 8, 4, 5, 2,
        1, 4, 8, 4, 3, 7, 5>>,
      <<9, 9, 9, 9, 9, 9, 9, 9, 8, 1, 3, 7, 3, 5, 4, 8, 5, 0, 7, 6, 9, 0, 4,
        2, 9, 6, 8, 7, 5>>,
      <<9, 9, 9, 9, 9, 9, 9, 9, 6, 2, 7, 4, 7, 0, 9, 7, 0, 1, 5, 3, 8, 0, 8,
        5, 9, 3, 7, 5>>,
      <<9, 9, 9, 9, 9, 9, 9, 9, 2, 5, 4, 9, 4, 1, 9, 4, 0, 3, 0, 7, 6, 1, 7,
        1, 8, 7, 5>>,
      <<9, 9, 9, 9, 9, 9, 9, 8, 5, 0, 9, 8, 8, 3, 8, 8, 0, 6, 1, 5, 2, 3, 4,
        3, 7, 5>>,
      <<9, 9, 9, 9, 9, 9, 9, 7, 0, 1, 9, 7, 6, 7, 7, 6, 1, 2, 3, 0, 4, 6, 8,
        7, 5>>,
      <<9, 9, 9, 9, 9, 9, 9, 4, 0, 3, 9, 5, 3, 5, 5, 2, 2, 4, 6, 0, 9, 3, 7,
        5>>,
      <<9, 9, 9, 9, 9, 9, 8, 8, 0, 7, 9, 0, 7, 1, 0, 4, 4, 9, 2, 1, 8, 7,
        5>>
    >>

\* n + 0.fr is nearer to n + 1 than to the double just below n + 1, or as
\* near: of the two, n + 1 has the even significand
RoundsUp(n, fr) == ~FracLess(fr, HalfWayDigits[BitLength(n) + 1])

\* the values static_cast<int> of a double outside int can leave: the
\* conversion is undefined, cvttsd2si gives INT_MIN and a saturating
\* conversion gives INT_MAX
WildCasts == {INT_MIN, INT_MAX}

\* static_cast<int>(std::stod(s)) on a run of digits and dots: strtod reads
\* the digits, a dot and the digits after it, and rounds to the nearest
\* double; std::invalid_argument when there is no digit on either side of
\* the dot, std::out_of_range when the number is beyond the doubles, or
\* too small for a normal one and no double exactly; wild is what the cast
\* of a double outside int leaves
stodToInt(s, wild) ==
    LET n1  == DigitRun(s, 1)
        dot == n1 < Len(s) /\ s[n1 + 1] = "."
        n2  == IF dot THEN DigitRun(s, n1 + 2) ELSE 0
        ip  == StripZeros(DigitsOf(s, 1, n1))
        fr  == DigitsOf(s, n1 + 2, n2)
    IN  IF n1 = 0 /\ n2 = 0 THEN Threw("std::invalid_argument")
        ELSE IF ~NatLess(ip, DoubleOverflowDigits)
        THEN Threw("std::out_of_range")
        ELSE IF /\ ip = <<>>
                /\ \E i \in 1..n2 : fr[i] # 0
                /\ FracLess(fr, DoubleUnderflowDigits)
                /\ ~ExactDenormal(fr)
        THEN Threw("std::out_of_range")
        ELSE IF NatLess(IntMaxDigits, ip) THEN Got(wild)
        ELSE IF RoundsUp(NatOf(ip), fr)
        THEN IF NatOf(ip) = INT_MAX THEN Got(wild) ELSE Got(NatOf(ip) + 1)
        ELSE Got(NatOf(ip))

\* s.find(sub) != std::string::npos
Contains(s, sub) ==
    \E i \in 1..(Len(s) - Len(sub) + 1) : SubSeq(s, i, i + Len(sub) - 1) = sub

\* the lines std::getline reads from the text
RECURSIVE SplitLines(_)
SplitLines(s) ==
    IF s = <<>> THEN <<>>
    ELSE IF IndexOf(s, "\n") = 0 THEN <<s>>
    ELSE <<SubSeq(s, 1, IndexOf(s, "\n") - 1)>> \o
         SplitLines(SubSeq(s, IndexOf(s, "\n") + 1, Len(s)))

----------------------------------------------------------------------------
(* std::regex, for the two patterns of the display detection: a pattern is *)
(* a sequence of parts, a part is a sequence of items and is a capture     *)
(* group or not, an item is a character class with a greedy quantifier or  *)
(* a run of literal characters                                             *)

One(c)  == [set |-> {c}, min |-> 1,      many |-> FALSE, text |-> <<>>]
Opt(c)  == [set |-> {c}, min |-> 0,      many |-> FALSE, text |-> <<>>]
Plus(S) == [set |-> S,   min |-> 1,      many |-> TRUE,  text |-> <<>>]
Star(S) == [set |-> S,   min |-> 0,      many |-> TRUE,  text |-> <<>>]
Text(s) == [set |-> {},  min |-> Len(s), many |-> FALSE, text |-> s]

Lit(s)       == [items |-> <<Text(s)>>, group |-> FALSE]
Part(items)  == [items |-> items, group |-> FALSE]
Group(items) == [items |-> items, group |-> TRUE]

RECURSIVE ItemsOf(_)
ItemsOf(parts) ==
    IF parts = <<>> THEN <<>> ELSE Head(parts).items \o ItemsOf(Tail(parts))

\* number of characters from pos on that the item can take: those that
\* lie in its set, at most one unless the item repeats; all of a literal
\* run or none
RunLength(line, pos, item) ==
    IF item.text # <<>>
    THEN IF /\ pos + Len(item.text) - 1 <= Len(line)
            /\ SubSeq(line, pos, pos + Len(item.text) - 1) = item.text
         THEN Len(item.text) ELSE 0
    ELSE LET cap == IF item.many \/ pos > Len(line) THEN Len(line) - pos + 1 ELSE 1
         IN  CHOOSE n \in 0..cap :
                 /\ \A j \in 0..(n - 1) : line[pos + j] \in item.set
                 /\ n = cap \/ line[pos + n] \notin item.set

\* the numbers of characters the item can take at pos so that the items
\* after it match: next lists the positions from which they do
Lengths(line, item, pos, next) ==
    {n \in item.min..RunLength(line, pos, item) :
        \E i \in 1..Len(next) : next[i] = pos + n}

\* from[j], for each suffix of the items, lists in ascending order the
\* positions from which that suffix matches; from holds the lists of the
\* suffixes shorter than the one PushItem adds, the shortest last
PushItem(line, items, from) ==
    IF Len(from) > Len(items) THEN from
    ELSE LET Matches(pos) ==
                 Lengths(line, items[Len(items) - Len(from) + 1], pos,
                         from[1]) # {}
         IN  <<SelectSeq([pos \in 1..(Len(line) + 1) |-> pos], Matches)>> \o from

\* the lists of all the suffixes, four more at every level
RECURSIVE FeasibleFrom(_, _, _)
FeasibleFrom(line, items, from) ==
    IF Len(from) > Len(items) THEN from
    ELSE FeasibleFrom(line, items,
             PushItem(line, items,
                 PushItem(line, items,
                     PushItem(line, items, PushItem(line, items, from)))))

\* the match that backtracking finds first from start: every item in turn
\* takes the most characters that still let the rest match; nexts[j] is
\* the position that follows the j-th item
PushNext(line, items, from, start, nexts) ==
    IF Len(nexts) = Len(items) THEN nexts
    ELSE LET pos == IF nexts = <<>> THEN start ELSE nexts[Len(nexts)]
             ns  == Lengths(line, items[Len(nexts) + 1], pos, from[Len(nexts) + 2])
         IN  Append(nexts, pos + (CHOOSE n \in ns : \A o \in ns : o <= n))

\* the positions after all the items, four more at every level
RECURSIVE GreedyFrom(_, _, _, _, _)
GreedyFrom(line, items, from, start, nexts) ==
    IF Len(nexts) = Len(items) THEN nexts
    ELSE GreedyFrom(line, items, from, start,
             PushNext(line, items, from, start,
                 PushNext(line, items, from, start,
                     PushNext(line, items, from, start,
                         PushNext(line, items, from, start, nexts)))))

\* the match at the leftmost position from which the items match
SearchStep(line, items, from) ==
    IF from[1] = <<>> THEN [ok |-> FALSE, start |-> 0, nexts |-> <<>>]
    ELSE [ok |-> TRUE, start |-> from[1][1],
          nexts |-> GreedyFrom(line, items, from, from[1][1], <<>>)]

SearchFrom(line, items) ==
    SearchStep(line, items,
               FeasibleFrom(line, items, <<[pos \in 1..(Len(line) + 1) |-> pos]>>))

\* number of items in the parts before the p-th
RECURSIVE ItemsBefore(_, _)
ItemsBefore(parts, p) ==
    IF p = 1 THEN 0 ELSE ItemsBefore(parts, p - 1) + Len(parts[p - 1].items)

\* the position at which the item after the n-th begins
PosAfter(m, n) == IF n = 0 THEN m.start ELSE m.nexts[n]

\* the text the p-th part matched
PartText(line, parts, m, p) ==
    SubSeq(line,
           PosAfter(m, ItemsBefore(parts, p)),
           PosAfter(m, ItemsBefore(parts, p) + Len(parts[p].items)) - 1)

\* the capture groups, in order
GroupsOf(line, parts, m) ==
    LET IsGroup(p) == parts[p].group
        gs == SelectSeq([p \in 1..Len(parts) |-> p], IsGroup)
    IN  [g \in 1..Len(gs) |-> PartText(line, parts, m, gs[g])]

regex_search_match(m, line, parts) ==
    IF m.ok THEN [ok |-> TRUE, match |-> GroupsOf(line, parts, m)]
    ELSE [ok |-> FALSE, match |-> <<>>]

\* std::regex_search(line, match, regex): match[g] is the g-th capture
regex_search(line, parts) ==
    regex_search_match(SearchFrom(line, ItemsOf(parts)), line, parts)

----------------------------------------------------------------------------
(* DisplayManager *)

DisplayErrorCode == {"None", "HyprlandNotRunning", "XrandrNotAvailable",
                     "NoDisplaysFound", "InvalidDisplayId",
                     "CommandExecutionFailed", "ParseError", "SystemError"}

HYPRLAND_MONITORS_CMD == "hyprctl monitors"
XRANDR_CMD            == "xrandr --listmonitors"

\* Monitor (\w+-\w+) \(ID (\d+)\): (\d+)x(\d+) @ ([\d.]+)Hz at (\d+)x(\d+)
HyprlandMonitorRegex ==
    << Lit(<<"M", "o", "n", "i", "t", "o", "r", " ">>),
       Group(<<Plus(WordSet), One("-"), Plus(WordSet)>>),
       Lit(<<" ", "(", "I", "D", " ">>),
       Group(<<Plus(DigitSet)>>),
       Lit(<<")", ":", " ">>),
       Group(<<Plus(DigitSet)>>),
       Lit(<<"x">>),
       Group(<<Plus(DigitSet)>>),
       Lit(<<" ", "@", " ">>),
       Group(<<Plus(DigitDotSet)>>),
       Lit(<<"H", "z", " ", "a", "t", " ">>),
       Group(<<Plus(DigitSet)>>),
       Lit(<<"x">>),
       Group(<<Plus(DigitSet)>>) >>

\* \s*\d+:\s+\+?\*?(\w+-\w+)\s+(\d+)/(\d+)x(\d+)/(\d+)\+(\d+)\+(\d+)\s+(\w+-\w+)
XrandrMonitorRegex ==
    << Part(<<Star(SpaceSet), Plus(DigitSet), One(":"), Plus(SpaceSet),
              Opt("+"), Opt("*")>>),
       Group(<<Plus(WordSet), One("-"), Plus(WordSet)>>),
       Part(<<Plus(SpaceSet)>>),
       Group(<<Plus(DigitSet)>>),
       Lit(<<"/">>),
       Group(<<Plus(DigitSet)>>),
       Lit(<<"x">>),
       Group(<<Plus(DigitSet)>>),
       Lit(<<"/">>),
       Group(<<Plus(DigitSet)>>),
       Lit(<<"+">>),
       Group(<<Plus(DigitSet)>>),
       Lit(<<"+">>),
       Group(<<Plus(DigitSet)>>),
       Part(<<Plus(SpaceSet)>>),
       Group(<<Plus(WordSet), One("-"), Plus(WordSet)>>) >>

createDisplayFromInfo(name, width, height, refreshRate, isPrimary) ==
    [id          |-> 0,
     name        |-> name,
     description |-> name \o <<" ", "(">> \o to_string(width) \o <<"x">> \o
                     to_string(height) \o <<"@">> \o to_string(refreshRate) \o
                     <<"H", "z", ")">>,
     width       |-> width,
     height      |-> height,
     refreshRate |-> refreshRate,
     isPrimary   |-> isPrimary,
     isActive    |-> TRUE,
     connector   |-> "",
     scale       |-> 1]

\* Display{}
EmptyDisplay ==
    [id          |-> 0,
     name        |-> <<>>,
     description |-> <<>>,
     width       |-> 0,
     height      |-> 0,
     refreshRate |-> 0,
     isPrimary   |-> FALSE,
     isActive    |-> FALSE,
     connector   |-> "",
     scale       |-> 0]

\* the connector class the parsers derive from the name
ConnectorOf(name) ==
    IF Contains(name, <<"D", "P", "-">>) THEN "DisplayPort"
    ELSE IF Contains(name, <<"H", "D", "M", "I", "-">>) THEN "HDMI"
    ELSE IF Contains(name, <<"D", "V", "I", "-">>) THEN "DVI"
    ELSE "Unknown"

----------------------------------------------------------------------------
(* What the two monitor-listing commands print *)

MonitorWord == <<"M", "o", "n", "i", "t", "o", "r">>

\* one line in the format the comment of parseHyprlandOutput gives, from
\* the text of its fields
HyprLineOf(name, id, width, height, hz, x, y) ==
    MonitorWord \o <<" ">> \o name \o <<" ", "(", "I", "D", " ">> \o id \o
    <<")", ":", " ">> \o width \o <<"x">> \o height \o
    <<" ", "@", " ">> \o hz \o <<"H", "z", " ", "a", "t", " ">> \o
    x \o <<"x">> \o y \o <<"\n">>

HyprLine(name, id, width, height, hz, x, y) ==
    HyprLineOf(name, to_string(id), to_string(width), to_string(height), hz,
               to_string(x), to_string(y))

\* "Monitors: n"
XrandrHeader(n) ==
    MonitorWord \o <<"s", ":", " ">> \o to_string(n) \o <<"\n">>

\* one line in the format the comment of parseXrandrOutput gives
XrandrLine(index, flags, name, width, height, x, y) ==
    <<" ">> \o to_string(index) \o <<":", " ">> \o flags \o name \o <<" ">> \o
    to_string(width) \o <<"/", "5", "9", "7", "x">> \o to_string(height) \o
    <<"/", "3", "3", "6", "+">> \o to_string(x) \o <<"+">> \o to_string(y) \o
    <<" ", " ">> \o name \o <<"\n">>

Hz165 == <<"1", "6", "5", ".", "0", "0", "1">>
Hz60  == <<"6", "0", ".", "0", "0", "1">>
DVI1  == <<"D", "V", "I", "-", "1">>

\* what the native command reports of one monitor
Mon(name, id, width, height, hz, x, y) ==
    [name |-> name, id |-> id, width |-> width, height |-> height, hz |-> hz,
     x |-> x, y |-> y]

\* the two monitors of the comment of parseHyprlandOutput
HyprCommentSample ==
    << Mon(DP1, 0, 2560, 1440, Hz165, 0, 0),
       Mon(HDMI1, 1, 1920, 1080, Hz60, 1920, 0) >>

\* two monitors side by side, the one at the origin first
HyprSideBySide ==
    << Mon(DP1, 0, 1920, 1080, Hz60, 0, 0),
       Mon(DP2, 1, 1920, 1080, Hz60, 1920, 0) >>

\* the monitor with the larger id and off the origin is reported first
HyprReversed ==
    << Mon(DP2, 1, 1920, 1080, Hz60, 1920, 0),
       Mon(EDP1, 0, 2560, 1440, Hz165, 0, 0) >>

\* two monitors that mirror each other: both at the origin
HyprMirrored ==
    << Mon(DP1, 0, 1920, 1080, Hz60, 0, 0),
       Mon(DP2, 1, 1920, 1080, Hz60, 0, 0) >>

\* one monitor, placed off the origin
HyprOffOrigin == << Mon(DP2, 1, 1920, 1080, Hz60, 1920, 0) >>

HyprSamples ==
    {<<>>, HyprCommentSample, HyprSideBySide, HyprReversed, HyprMirrored,
     HyprOffOrigin}

\* the text the native command prints for the monitors of a sample
RECURSIVE HyprText(_)
HyprText(sample) ==
    IF sample = <<>> THEN <<>>
    ELSE HyprLine(Head(sample).name, Head(sample).id, Head(sample).width,
                  Head(sample).height, Head(sample).hz, Head(sample).x,
                  Head(sample).y) \o HyprText(Tail(sample))

\* text in which no line has the format
HyprNoMatch == <<"n", "o", " ", "m", "o", "n", "i", "t", "o", "r", "s", "\n">>

\* a second monitor whose width is one more than INT_MAX
HyprTooWide ==
    HyprLine(DP1, 0, 1920, 1080, Hz60, 0, 0) \o
    HyprLineOf(DP2, <<"1">>, <<"2", "1", "4", "7", "4", "8", "3", "6", "4", "8">>,
               <<"1", "0", "8", "0">>, Hz60, <<"1", "9", "2", "0">>, <<"0">>)

\* a refresh rate without a digit
HyprDotRate == HyprLine(DP1, 0, 1920, 1080, <<".">>, 0, 0)

\* a refresh rate of 2^32
HyprFastRate ==
    HyprLine(DP1, 0, 1920, 1080,
             <<"4", "2", "9", "4", "9", "6", "7", "2", "9", "6">>, 0, 0)

\* a refresh rate the nearest double to which is 60
HyprRoundedRate ==
    HyprLine(DP1, 0, 1920, 1080,
             <<"5", "9", ".">> \o [i \in 1..17 |-> "9"], 0, 0)

HyprlandOutputs ==
    {HyprText(sample) : sample \in HyprSamples} \cup
    {HyprNoMatch, HyprTooWide, HyprDotRate, HyprFastRate, HyprRoundedRate}

XrandrNoMonitors == XrandrHeader(0)

XrandrSideBySide ==
    XrandrHeader(2) \o
    XrandrLine(0, <<"+", "*">>, DP1, 2560, 1440, 0, 0) \o
    XrandrLine(1, <<"+">>, DP2, 1920, 1080, 2560, 0)

XrandrMirrored ==
    XrandrHeader(2) \o
    XrandrLine(0, <<"+", "*">>, DP1, 1920, 1080, 0, 0) \o
    XrandrLine(1, <<"+">>, DP2, 1920, 1080, 0, 0)

XrandrOffOrigin ==
    XrandrHeader(1) \o XrandrLine(0, <<"+", "*">>, DVI1, 2560, 1440, 10, 0)

\* the fields of the line are separated by vertical tabs
XrandrVerticalTabs ==
    <<VerticalTab, "0", ":", VerticalTab, "+", "*">> \o DP1 \o <<VerticalTab>> \o
    <<"2", "5", "6", "0", "/", "5", "9", "7", "x", "1", "4", "4", "0", "/",
      "3", "3", "6", "+", "0", "+", "0", VerticalTab>> \o DP1 \o <<"\n">>

\* a second monitor placed beyond INT_MAX
XrandrTooFar ==
    XrandrLine(0, <<"+", "*">>, DP1, 1920, 1080, 0, 0) \o
    <<" ", "1", ":", " ", "+">> \o DP2 \o
    <<" ", "1", "9", "2", "0", "/", "5", "0", "9", "x", "1", "0", "8", "0", "/",
      "2", "8", "6", "+", "9", "9", "9", "9", "9", "9", "9", "9", "9", "9", "9",
      "+", "0", " ", " ">> \o DP2 \o <<"\n">>

XrandrOutputs ==
    {<<>>, XrandrNoMonitors, XrandrSideBySide, XrandrMirrored, XrandrOffOrigin,
     XrandrVerticalTabs, XrandrTooFar}

----------------------------------------------------------------------------
(* The two parsers *)

\* the exception the first conversion that fails leaves by, "" if none
FirstThrown(rs) ==
    IF \A i \in 1..Len(rs) : ~rs[i].threw THEN ""
    ELSE rs[CHOOSE i \in 1..Len(rs) :
                rs[i].threw /\ \A j \in 1..(i - 1) : ~rs[j].threw].what

\* the conversions parseHyprlandOutput makes of the captures of one line,
\* in the order it makes them
HyprlandNumbers(match, wild) ==
    << stoi(match[2]), stoi(match[3]), stoi(match[4]),
       stodToInt(match[5], wild), stoi(match[6]), stoi(match[7]) >>

\* variant: the id reported on the line is not stored
HyprlandDisplay_NoId(match, wild) ==
    LET n == HyprlandNumbers(match, wild)
    IN  IF FirstThrown(n) # "" THEN Threw(FirstThrown(n))
        ELSE Got([createDisplayFromInfo(match[1], n[2].v, n[3].v, n[4].v,
                                        n[5].v = 0 /\ n[6].v = 0)
                     EXCEPT !.isActive = TRUE,
                            !.connector = ConnectorOf(match[1])])

\* the Display parseHyprlandOutput builds from the captures of one line,
\* or the exception a conversion leaves by
HyprlandDisplay(match, wild) ==
    LET n == HyprlandNumbers(match, wild)
    IN  IF FirstThrown(n) # "" THEN Threw(FirstThrown(n))
        ELSE Got([createDisplayFromInfo(match[1], n[2].v, n[3].v, n[4].v,
                                        n[5].v = 0 /\ n[6].v = 0)
                     EXCEPT !.id = n[1].v,
                            !.isActive = TRUE,
                            !.connector = ConnectorOf(match[1])])

\* what a parsing loop leaves: the displays pushed to m_displays, and the
\* exception that ended the loop, "" when it read every line
Parsed(displays, threw) == [displays |-> displays, threw |-> threw]

\* the loop of parseHyprlandOutput from the i-th line on; r is what
\* regex_search found in that line, d the display built from it
RECURSIVE HyprlandDisplays(_, _, _, _)
RECURSIVE HyprlandStep(_, _, _, _, _)
RECURSIVE HyprlandPush(_, _, _, _, _)
HyprlandDisplays(lines, i, displays, wild) ==
    IF i > Len(lines) THEN Parsed(displays, "")
    ELSE HyprlandStep(regex_search(lines[i], HyprlandMonitorRegex),
                      lines, i, displays, wild)

HyprlandStep(r, lines, i, displays, wild) ==
    IF r.ok THEN HyprlandPush(HyprlandDisplay(r.match, wild), lines, i, displays, wild)
    ELSE HyprlandDisplays(lines, i + 1, displays, wild)

HyprlandPush(d, lines, i, displays, wild) ==
    IF d.threw THEN Parsed(displays, d.what)
    ELSE HyprlandDisplays(lines, i + 1, Append(displays, d.v), wild)

\* m_displays holds what the loop pushed; the function returns unless the
\* loop ended by an exception
parseHyprlandOutput_Store(s, parsed) ==
    IF parsed.threw # ""
    THEN [s EXCEPT !.m_displays = parsed.displays, !.threw = parsed.threw]
    ELSE [s EXCEPT !.m_displays = parsed.displays, !.ret = parsed.displays # <<>>]

\* what the loop leaves of each of the sample outputs, worked out once
HyprlandParsed ==
    [output \in HyprlandOutputs, wild \in WildCasts |->
        HyprlandDisplays(SplitLines(output), 1, <<>>, wild)]

\* what the loop of parseHyprlandOutput leaves of the output
HyprlandLoop(output, wild) ==
    IF output \in HyprlandOutputs /\ wild \in WildCasts
    THEN HyprlandParsed[output, wild]
    ELSE HyprlandDisplays(SplitLines(output), 1, <<>>, wild)

parseHyprlandOutput(s, output, wild) ==
    parseHyprlandOutput_Store(s, HyprlandLoop(output, wild))

\* the conversions parseXrandrOutput makes of the captures of one line
XrandrNumbers(match) ==
    << stoi(match[2]), stoi(match[4]), stoi(match[6]), stoi(match[7]) >>

\* the Display parseXrandrOutput builds from the captures of one line, or
\* the exception a conversion leaves by
XrandrDisplay(match, displayId) ==
    LET n == XrandrNumbers(match)
    IN  IF FirstThrown(n) # "" THEN Threw(FirstThrown(n))
        ELSE Got([createDisplayFromInfo(match[1], n[1].v, n[2].v, 60,
                                        n[3].v = 0 /\ n[4].v = 0)
                     EXCEPT !.id = displayId,
                            !.isActive = TRUE,
                            !.connector = ConnectorOf(match[1])])

\* the loop of parseXrandrOutput from the i-th line on; r is what
\* regex_search found in that line, d the display built from it
RECURSIVE XrandrDisplays(_, _, _)
RECURSIVE XrandrStep(_, _, _, _)
RECURSIVE XrandrPush(_, _, _, _)
XrandrDisplays(lines, i, displays) ==
    IF i > Len(lines) THEN Parsed(displays, "")
    ELSE XrandrStep(regex_search(lines[i], XrandrMonitorRegex), lines, i, displays)

XrandrStep(r, lines, i, displays) ==
    IF r.ok THEN XrandrPush(XrandrDisplay(r.match, Len(displays)), lines, i, displays)
    ELSE XrandrDisplays(lines, i + 1, displays)

XrandrPush(d, lines, i, displays) ==
    IF d.threw THEN Parsed(displays, d.what)
    ELSE XrandrDisplays(lines, i + 1, Append(displays, d.v))

parseXrandrOutput_Store(s, parsed) ==
    IF parsed.threw # ""
    THEN [s EXCEPT !.m_displays = parsed.displays, !.threw = parsed.threw]
    ELSE [s EXCEPT !.m_displays = parsed.displays, !.ret = parsed.displays # <<>>]

\* what the loop leaves of each of the sample outputs, worked out once
XrandrParsed ==
    [output \in XrandrOutputs |-> XrandrDisplays(SplitLines(output), 1, <<>>)]

\* what the loop of parseXrandrOutput leaves of the output
XrandrLoop(output) ==
    IF output \in XrandrOutputs THEN XrandrParsed[output]
    ELSE XrandrDisplays(SplitLines(output), 1, <<>>)

parseXrandrOutput(s, output) ==
    parseXrandrOutput_Store(s, XrandrLoop(output))

DisplayManager_clearError(s) ==
    [s EXCEPT !.m_lastError = NoErrText, !.m_lastErrorCode = "None"]

\* executeCommand(command): the command is run, its output is the tool's
executeCommand(s, command) == System(s, command, <<>>, 0)

\* queryHyprlandDisplays once the output has been parsed; an exception of
\* the parser passes through
queryHyprlandDisplays_Parsed(s) ==
    IF s.threw # "" THEN s
    ELSE IF ~s.ret
    THEN FailCode(s, "Failed to parse Hyprland display output", <<>>, "ParseError")
    ELSE [s EXCEPT !.ret = TRUE]

queryHyprlandDisplays(s, output, wild) ==
    IF output = <<>>
    THEN FailCode(executeCommand(s, HYPRLAND_MONITORS_CMD),
                  "Failed to query Hyprland displays - Hyprland may not be running",
                  <<>>, "HyprlandNotRunning")
    ELSE queryHyprlandDisplays_Parsed(
             parseHyprlandOutput(executeCommand(s, HYPRLAND_MONITORS_CMD), output,
                                 wild))

\* the last test of refreshDisplays
refreshDisplays_Check(s) ==
    IF s.m_displays = <<>>
    THEN FailCode(s, "No displays found", <<>>, "NoDisplaysFound")
    ELSE [s EXCEPT !.ret = TRUE]

\* refreshDisplays once the xrandr output has been parsed
refreshDisplays_Xrandr(s) ==
    IF s.threw # "" THEN s
    ELSE IF ~s.ret
    THEN FailCode(s, "Failed to parse xrandr output", <<>>, "ParseError")
    ELSE refreshDisplays_Check(s)

\* variant: the default display is added to the displays already held
refreshDisplays_Fallback_NoClear(s, xrandr) ==
    IF s.threw # "" THEN s
    ELSE IF s.ret THEN refreshDisplays_Check(s)
    ELSE IF xrandr # <<>>
    THEN refreshDisplays_Xrandr(
             parseXrandrOutput(executeCommand(s, XRANDR_CMD), xrandr))
    ELSE refreshDisplays_Check(
             [executeCommand(s, XRANDR_CMD) EXCEPT
                 !.m_displays = Append(@, createDisplayFromInfo(DP1, 1920, 1080, 60, TRUE)),
                 !.m_lastError =
                     ErrText("No display detection method available, using default", <<>>),
                 !.m_lastErrorCode = "NoDisplaysFound"])

\* refreshDisplays once queryHyprlandDisplays has returned s.ret
refreshDisplays_Fallback(s, xrandr) ==
    IF s.threw # "" THEN s
    ELSE IF s.ret THEN refreshDisplays_Check(s)
    ELSE IF xrandr # <<>>
    THEN refreshDisplays_Xrandr(
             parseXrandrOutput(executeCommand(s, XRANDR_CMD), xrandr))
    ELSE refreshDisplays_Check(
             [executeCommand(s, XRANDR_CMD) EXCEPT
                 !.m_displays = <<createDisplayFromInfo(DP1, 1920, 1080, 60, TRUE)>>,
                 !.m_lastError =
                     ErrText("No display detection method available, using default", <<>>),
                 !.m_lastErrorCode = "NoDisplaysFound"])

refreshDisplays(s, hyprland, xrandr, wild) ==
    refreshDisplays_Fallback(
        queryHyprlandDisplays(DisplayManager_clearError(s), hyprland, wild),
        xrandr)

getPrimaryDisplay(displays) ==
    IF \E i \in 1..Len(displays) : displays[i].isPrimary
    THEN displays[CHOOSE i \in 1..Len(displays) :
                      /\ displays[i].isPrimary
                      /\ \A j \in 1..(i - 1) : ~displays[j].isPrimary]
    ELSE IF displays # <<>> THEN displays[1]
    ELSE EmptyDisplay

----------------------------------------------------------------------------
(* The DisplayManager as it is constructed *)

\* the members of a DisplayManager before its constructor has run
NewDisplayManager ==
    [m_displays      |-> <<>>,
     m_lastError     |-> NoErrText,
     m_lastErrorCode |-> "None",
     cmds            |-> <<>>,
     ret             |-> FALSE,
     threw           |-> ""]

\* the inventory DisplayManager() builds when the native command reports two
\* monitors side by side
TwoMonitorInventory ==
    refreshDisplays(NewDisplayManager, HyprText(HyprSideBySide), <<>>,
                    INT_MIN).m_displays

\* the display ids known to the inventory
InventoryIds == {m_displays[i].id : i \in 1..Len(m_displays)}

----------------------------------------------------------------------------
(* The state machine: one action per public call *)

Call(op, path, displayId, mode, ret) ==
    [op |-> op, path |-> path, displayId |-> displayId, mode |-> mode, ret |-> ret]

\* the members and the command log take the values of s
Commit(s) ==
    /\ m_wallpapers' = s.m_wallpapers
    /\ m_lastError' = s.m_lastError
    /\ m_lastErrorCode' = s.m_lastErrorCode
    /\ m_allWallpapersCache' = s.m_allWallpapersCache
    /\ m_cacheValid' = s.m_cacheValid
    /\ cmds' = s.cmds
    /\ nCalls' = nCalls + 1
    /\ before' = m_wallpapers
    /\ UNCHANGED m_displays

\* WallpaperManager::WallpaperManager() and DisplayManager::DisplayManager()
Init ==
    /\ m_wallpapers = <<>>
    /\ m_lastError = NoErrText
    /\ m_lastErrorCode = "None"
    /\ m_allWallpapersCache = <<>>
    /\ m_cacheValid = FALSE
    /\ m_displays = TwoMonitorInventory
    /\ last = Call("new", <<>>, 0, "Scale", TRUE)
    /\ cmds = <<>>
    /\ nCalls = 0
    /\ before = <<>>

CallSetWallpaper ==
    /\ nCalls < MaxCalls
    /\ \E path \in Paths, displayId \in DisplayIds :
       \E env \in EnvsForPath(path) :
         \E s \in {setWallpaper(Self, path, displayId, env)} :
             /\ Commit(s)
             /\ last' = Call("setWallpaper", path, displayId, "Scale", s.ret)

CallSetWallpaperAllDisplays ==
    /\ nCalls < MaxCalls
    /\ \E path \in Paths :
       \E env \in EnvsForPath(path) :
         \E s \in {setWallpaperAllDisplays(Self, path, env)} :
             /\ Commit(s)
             /\ last' = Call("setWallpaperAllDisplays", path, 0, "Scale", s.ret)

CallRemoveWallpaper ==
    /\ nCalls < MaxCalls
    /\ \E displayId \in DisplayIds, status \in ExitCodes :
         \E s \in {removeWallpaper(Self, displayId, status)} :
             /\ Commit(s)
             /\ last' = Call("removeWallpaper", <<>>, displayId, "Scale", s.ret)

CallRemoveAllWallpapers ==
    /\ nCalls < MaxCalls
    /\ \E status \in ExitCodes :
         \E s \in {removeAllWallpapers(Self, status)} :
             /\ Commit(s)
             /\ last' = Call("removeAllWallpapers", <<>>, 0, "Scale", s.ret)

CallSetWallpaperMode ==
    /\ nCalls < MaxCalls
    /\ \E displayId \in DisplayIds, mode \in ModeInputs :
       \E env \in EnvsFor(m_wallpapers, displayId) :
         \E s \in {setWallpaperMode(Self, displayId, mode, env)} :
             /\ Commit(s)
             /\ last' = Call("setWallpaperMode", <<>>, displayId, mode, s.ret)

CallGetAllWallpapers ==
    /\ nCalls < MaxCalls
    /\ \E s \in {getAllWallpapers(Self)} :
           /\ Commit(s)
           /\ last' = Call("getAllWallpapers", <<>>, 0, "Scale", s.ret)

CallApplyToHyprland ==
    /\ nCalls < MaxCalls
    /\ \E displayId \in DisplayIds :
       \E env \in EnvsFor(m_wallpapers, displayId) :
         \E s \in {applyToHyprland(Self, displayId, env)} :
             /\ Commit(s)
             /\ last' = Call("applyToHyprland", <<>>, displayId, "Scale", s.ret)

CallApplyToAllHyprlandDisplays ==
    /\ nCalls < MaxCalls
    /\ \E envs \in [Keys(m_wallpapers) -> Envs] :
         \E s \in {applyToAllHyprlandDisplays(Self, envs)} :
             /\ Commit(s)
             /\ last' = Call("applyToAllHyprlandDisplays", <<>>, 0, "Scale", s.ret)

CallClearError ==
    /\ nCalls < MaxCalls
    /\ \E s \in {[clearError(Self) EXCEPT !.ret = TRUE]} :
           /\ Commit(s)
           /\ last' = Call("clearError", <<>>, 0, "Scale", s.ret)

Next ==
    \/ CallSetWallpaper
    \/ CallSetWallpaperAllDisplays
    \/ CallRemoveWallpaper
    \/ CallRemoveAllWallpapers
    \/ CallSetWallpaperMode
    \/ CallGetAllWallpapers
    \/ CallApplyToHyprland
    \/ CallApplyToAllHyprlandDisplays
    \/ CallClearError

Spec == Init /\ [][Next]_vars

TypeOK ==
    /\ m_cacheValid \in BOOLEAN
    /\ m_lastErrorCode \in ErrorCode
    /\ nCalls \in 0..MaxCalls
    /\ \A i \in 1..Len(m_wallpapers) : m_wallpapers[i].val.mode \in WallpaperMode

----------------------------------------------------------------------------
(* The state machine of the display inventory: m_displays, m_lastError and *)
(* m_lastErrorCode are the members of the DisplayManager, last is its last *)
(* call with the output the two commands gave it, before is m_displays as  *)
(* it was when that call began                                             *)

DisplaySelf ==
    [m_displays      |-> m_displays,
     m_lastError     |-> m_lastError,
     m_lastErrorCode |-> m_lastErrorCode,
     cmds            |-> <<>>,
     ret             |-> FALSE,
     threw           |-> ""]

\* a call, the output the two commands gave it, what the cast of a refresh
\* rate outside int left, and how the call ended: threw is the exception
\* it left by, "" when it returned ret
DisplayCall(op, hyprland, xrandr, wild, s, display) ==
    [op |-> op, hyprland |-> hyprland, xrandr |-> xrandr, wild |-> wild,
     ret |-> s.ret, threw |-> s.threw, display |-> display]

\* the legacy command is run, and its output drawn, only when the native
\* attempt returns false
XrandrFor(hyprland, wild) ==
    IF \E s \in {queryHyprlandDisplays(NewDisplayManager, hyprland, wild)} :
           s.ret \/ s.threw # ""
    THEN {<<>>} ELSE XrandrOutputs

\* the members take the values of s
DisplayCommit(s) ==
    /\ m_displays' = s.m_displays
    /\ m_lastError' = s.m_lastError
    /\ m_lastErrorCode' = s.m_lastErrorCode
    /\ cmds' = s.cmds
    /\ before' = m_displays
    /\ UNCHANGED <<m_wallpapers, m_allWallpapersCache, m_cacheValid, nCalls>>

\* DisplayManager::DisplayManager(): there is an object when the constructor
\* returns, none when refreshDisplays leaves it by an exception
InitDisplay ==
    /\ m_wallpapers = <<>>
    /\ m_allWallpapersCache = <<>>
    /\ m_cacheValid = FALSE
    /\ nCalls = 0
    /\ before = <<>>
    /\ \E hyprland \in HyprlandOutputs, wild \in WildCasts :
       \E xrandr \in XrandrFor(hyprland, wild) :
         \E s \in {refreshDisplays(NewDisplayManager, hyprland, xrandr, wild)} :
             /\ s.threw = ""
             /\ m_displays = s.m_displays
             /\ m_lastError = s.m_lastError
             /\ m_lastErrorCode = s.m_lastErrorCode
             /\ cmds = s.cmds
             /\ last = DisplayCall("new", hyprland, xrandr, wild, s, EmptyDisplay)

CallRefreshDisplays ==
    \E hyprland \in HyprlandOutputs, wild \in WildCasts :
    \E xrandr \in XrandrFor(hyprland, wild) :
      \E s \in {refreshDisplays(DisplaySelf, hyprland, xrandr, wild)} :
          /\ DisplayCommit(s)
          /\ last' = DisplayCall("refreshDisplays", hyprland, xrandr, wild, s,
                                 EmptyDisplay)

\* queryHyprlandDisplays(), called on its own: the error of an earlier call
\* stays when it succeeds, and the legacy command is not run
CallQueryHyprlandDisplays ==
    \E hyprland \in HyprlandOutputs, wild \in WildCasts :
      \E s \in {queryHyprlandDisplays(DisplaySelf, hyprland, wild)} :
          /\ DisplayCommit(s)
          /\ last' = DisplayCall("queryHyprlandDisplays", hyprland, <<>>, wild, s,
                                 EmptyDisplay)

\* DisplayManager::clearError()
CallDisplayClearError ==
    \E s \in {[DisplayManager_clearError(DisplaySelf) EXCEPT !.ret = TRUE]} :
        /\ DisplayCommit(s)
        /\ last' = DisplayCall("clearError", <<>>, <<>>, INT_MIN, s, EmptyDisplay)

CallGetPrimaryDisplay ==
    /\ DisplayCommit([DisplaySelf EXCEPT !.ret = TRUE])
    /\ last' = DisplayCall("getPrimaryDisplay", <<>>, <<>>, INT_MIN,
                           [DisplaySelf EXCEPT !.ret = TRUE],
                           getPrimaryDisplay(m_displays))

NextDisplay ==
    \/ CallRefreshDisplays
    \/ CallQueryHyprlandDisplays
    \/ CallDisplayClearError
    \/ CallGetPrimaryDisplay

SpecDisplay == InitDisplay /\ [][NextDisplay]_vars

----------------------------------------------------------------------------
(* Arithmetic of the geometry helpers.  An int is a 32-bit two's           *)
(* complement integer.  A double is a zero, an infinity, a NaN or a finite *)
(* number, and has a sign; a finite one has an exponent and the bits of    *)
(* its 53-bit significand, most significant first: its magnitude is        *)
(* (bits read as an integer) * 2^(exp - 52)                                *)

\* number of bits of the significand of a double
MantissaBits == 53

\* a - b on int; a difference outside the range of int is undefined in the
\* language, and the subtraction instruction of the build wraps it
\* modulo 2^32
SubInt(a, b) ==
    IF b > 0 /\ a < INT_MIN + b
    THEN ((a - INT_MIN) + (INT_MAX - b)) + 1
    ELSE IF b < 0 /\ a > INT_MAX + b
    THEN (((a - INT_MAX) - 1) - b) + INT_MIN
    ELSE a - b

\* variant: the quotient is rounded down
IntDivide_Floor(a, b) == a \div b

\* a / b on int for a positive divisor: the quotient is truncated toward zero
IntDivide(a, b) ==
    (a \div b) + (IF a < 0 /\ a % b # 0 THEN 1 ELSE 0)

calculateCenteringOffsets(displayWidth, displayHeight, imageWidth, imageHeight) ==
    <<IntDivide(SubInt(displayWidth, imageWidth), 2),
      IntDivide(SubInt(displayHeight, imageHeight), 2)>>

\* the bits of a natural number below 2^31, most significant first; no bit
\* for 0
ToBits(n) ==
    LET len == CHOOSE k \in 0..31 :
                   /\ k = 0 \/ n \div (2 ^ (k - 1)) >= 1
                   /\ k = 31 \/ n \div (2 ^ k) = 0
    IN  [i \in 1..len |-> (n \div (2 ^ (len - i))) % 2]

\* one step of the long division of d.rem / b (d.rem < b): the next bit of
\* the quotient is appended to d.bits unless they are len already
DivStep(d, b, len) ==
    IF Len(d.bits) >= len THEN d
    ELSE IF d.rem >= b - d.rem
    THEN [bits |-> Append(d.bits, 1), rem |-> d.rem - (b - d.rem)]
    ELSE [bits |-> Append(d.bits, 0), rem |-> d.rem + d.rem]

\* the steps until d.bits holds len bits, eight at every level
RECURSIVE DivSteps(_, _, _)
DivSteps(d, b, len) ==
    IF Len(d.bits) >= len THEN d
    ELSE DivSteps(
             DivStep(DivStep(DivStep(DivStep(DivStep(DivStep(DivStep(DivStep(
                 d, b, len), b, len), b, len), b, len), b, len), b, len),
                 b, len), b, len),
             b, len)

\* long division of rem / b (rem < b): quotient bits are appended to acc
\* until it holds len bits; the bits and the remainder left
DivBits(rem, b, len, acc) == DivSteps([bits |-> acc, rem |-> rem], b, len)

\* the exponent of a / b for positive a and b: 2^e <= a / b < 2^(e + 1)
DoubleExponent(a, b) ==
    LET AtLeast(e) ==
            IF e > 30 THEN FALSE
            ELSE IF e >= 0 THEN b <= a \div (2 ^ e)
            ELSE IF e < -30 THEN TRUE
            ELSE (b \div (2 ^ (-e))) + (IF b % (2 ^ (-e)) # 0 THEN 1 ELSE 0) <= a
    IN  CHOOSE e \in -31..30 : AtLeast(e) /\ ~AtLeast(e + 1)

\* the significand plus one unit in its last place
IncBits(exp, bits) ==
    IF \A i \in 1..Len(bits) : bits[i] = 1
    THEN [exp |-> exp + 1, bits |-> [i \in 1..Len(bits) |-> IF i = 1 THEN 1 ELSE 0]]
    ELSE LET k == CHOOSE i \in 1..Len(bits) :
                      bits[i] = 0 /\ \A j \in (i + 1)..Len(bits) : bits[j] = 1
         IN  [exp |-> exp,
              bits |-> [i \in 1..Len(bits) |->
                           IF i < k THEN bits[i] ELSE IF i = k THEN 1 ELSE 0]]

\* the quotient digits rounded to the nearest double, ties to even: stream
\* ends with the significand and one more bit, rem is the remainder left
DoubleRound(exp, stream, rem) ==
    LET bits == SubSeq(stream, Len(stream) - MantissaBits, Len(stream) - 1)
    IN  IF stream[Len(stream)] = 1 /\ (rem # 0 \/ bits[MantissaBits] = 1)
        THEN IncBits(exp, bits)
        ELSE [exp |-> exp, bits |-> bits]

\* the exponent and the significand of the double nearest to a / b, for
\* positive a and b
Quotient(a, b) ==
    LET exp == DoubleExponent(a, b)
        d   == DivBits(a % b, b, MantissaBits + 1 + (IF exp < 0 THEN -exp - 1 ELSE 0),
                       ToBits(a \div b))
    IN  DoubleRound(exp, d.bits, d.rem)

Double(kind, neg, exp, bits) ==
    [kind |-> kind, neg |-> neg, exp |-> exp, bits |-> bits]

NoBits == [i \in 1..MantissaBits |-> 0]

\* the magnitude of an int as a number TLC can hold and a power of two:
\* the magnitude of INT_MIN is 2^30 * 2^1
Magnitude(x) == IF x = INT_MIN THEN 2 ^ 30 ELSE IF x < 0 THEN 0 - x ELSE x
MagnitudeShift(x) == IF x = INT_MIN THEN 1 ELSE 0

\* static_cast<double>(a) / static_cast<double>(b): both conversions are
\* exact and the division is correctly rounded; a number divided by zero
\* is an infinity of its sign, and 0.0 / 0.0 is the NaN the division
\* instruction of the build gives, whose sign bit is set
DoubleDivide(a, b) ==
    IF a = 0 /\ b = 0 THEN Double("nan", TRUE, 0, NoBits)
    ELSE IF b = 0 THEN Double("inf", a < 0, 0, NoBits)
    ELSE IF a = 0 THEN Double("zero", b < 0, 0, NoBits)
    ELSE LET q == Quotient(Magnitude(a), Magnitude(b))
         IN  Double("finite", (a < 0) # (b < 0),
                    q.exp + MagnitudeShift(a) - MagnitudeShift(b), q.bits)

\* |x| < |y| for two doubles that are neither zero nor NaN
MagnitudeLess(x, y) ==
    /\ x.kind = "finite"
    /\ \/ y.kind = "inf"
       \/ x.exp < y.exp
       \/ /\ x.exp = y.exp
          /\ \E i \in 1..MantissaBits :
                 /\ x.bits[i] < y.bits[i]
                 /\ \A j \in 1..(i - 1) : x.bits[j] = y.bits[j]

\* -1, 0 or 1 as x is below, at or above zero
SignOf(x) == IF x.kind = "zero" THEN 0 ELSE IF x.neg THEN -1 ELSE 1

\* x < y on doubles: false when either is a NaN, and between the two zeros
DoubleLess(x, y) ==
    /\ x.kind # "nan" /\ y.kind # "nan"
    /\ IF SignOf(x) # SignOf(y) THEN SignOf(x) < SignOf(y)
       ELSE IF SignOf(x) = 1 THEN MagnitudeLess(x, y)
       ELSE IF SignOf(x) = -1 THEN MagnitudeLess(y, x)
       ELSE FALSE

\* variant: the larger of the two
DoubleMin_Max(x, y) == IF DoubleLess(x, y) THEN y ELSE x

\* std::min(x, y): y when y < x, x otherwise
DoubleMin(x, y) == IF DoubleLess(y, x) THEN y ELSE x

calculateAspectRatioScale(displayWidth, displayHeight, imageWidth, imageHeight) ==
    DoubleMin(DoubleDivide(displayWidth, imageWidth),
              DoubleDivide(displayHeight, imageHeight))

----------------------------------------------------------------------------
(* The geometry helpers as a state machine: last holds the four arguments  *)
(* and, once a helper has been called, its name and its return value       *)

DisplaySizes == {INT_MIN, 0, 1, 3, 1080, 1920, INT_MAX}
ImageSizes   == {INT_MIN, -1, 0, 1, 3, 187, 600, 800, 2160, 3840, INT_MAX}

GeometryCall(op, displayWidth, displayHeight, imageWidth, imageHeight, ret) ==
    [op |-> op, displayWidth |-> displayWidth, displayHeight |-> displayHeight,
     imageWidth |-> imageWidth, imageHeight |-> imageHeight, ret |-> ret]

InitGeometry ==
    /\ m_wallpapers = <<>>
    /\ m_lastError = NoErrText
    /\ m_lastErrorCode = "None"
    /\ m_allWallpapersCache = <<>>
    /\ m_cacheValid = FALSE
    /\ m_displays = <<>>
    /\ cmds = <<>>
    /\ nCalls = 0
    /\ before = <<>>
    /\ \E displayWidth \in DisplaySizes, displayHeight \in DisplaySizes,
          imageWidth \in ImageSizes, imageHeight \in ImageSizes :
           last = GeometryCall("new", displayWidth, displayHeight,
                               imageWidth, imageHeight, <<>>)

CallCalculateAspectRatioScale ==
    /\ last' = [last EXCEPT
                   !.op = "calculateAspectRatioScale",
                   !.ret = calculateAspectRatioScale(last.displayWidth,
                               last.displayHeight, last.imageWidth,
                               last.imageHeight)]
    /\ UNCHANGED <<m_wallpapers, m_lastError, m_lastErrorCode,
                   m_allWallpapersCache, m_cacheValid, m_displays, cmds,
                   nCalls, before>>

CallCalculateCenteringOffsets ==
    /\ last' = [last EXCEPT
                   !.op = "calculateCenteringOffsets",
                   !.ret = calculateCenteringOffsets(last.displayWidth,
                               last.displayHeight, last.imageWidth,
                               last.imageHeight)]
    /\ UNCHANGED <<m_wallpapers, m_lastError, m_lastErrorCode,
                   m_allWallpapersCache, m_cacheValid, m_displays, cmds,
                   nCalls, before>>

NextGeometry ==
    \/ CallCalculateAspectRatioScale
    \/ CallCalculateCenteringOffsets

SpecGeometry == InitGeometry /\ [][NextGeometry]_vars

----------------------------------------------------------------------------
(* The header reader as a state machine: last holds the bytes of the file  *)
(* and the state of the reader, which advances by the part before the      *)
(* marker scan and then by one turn of the scan at a time                  *)

\* bytes of the size fields of the sample files
FieldBytes == {0, 7, 128}
MarkerFieldBytes == {0, 4, 128, 255}

PngSamples ==
    {PngFile(<<a, b, c, d>>, h) :
        a \in FieldBytes, b \in FieldBytes, c \in FieldBytes, d \in FieldBytes,
        h \in {<<0, 0, 4, 56>>, <<0, 0, 0, 200>>}}

JpegSamples ==
    {JpegFile(<<a, b>>, w) :
        a \in MarkerFieldBytes, b \in MarkerFieldBytes,
        w \in {<<7, 128>>, <<3, 32>>}}

\* a JPEG whose Huffman table segment (marker 0xC4) comes before the frame
\* header, one whose application segment gives its length as 0xFFFE, files
\* cut short, and files that are no image
OtherSamples ==
    {JpegSoi \o <<255, 196, 0, 4, 1, 2>> \o <<255, 192, 0, 17, 8, 2, 88, 3, 32, 3>>,
     JpegSoi \o <<255, 224, 0, 4, 0, 0>>,
     JpegSoi \o <<255, 224, 255, 254, 0, 0>>,
     JpegSoi \o <<255, 224, 0, 4, 0, 0>> \o <<255, 192>>,
     JpegSoi \o <<255, 224, 0, 4, 0, 0>> \o <<255, 192, 0, 17, 8, 2>>,
     PngSignature \o <<0, 0, 0, 13>> \o IhdrType,
     JpegSoi \o <<255, 224>>,
     PngSignature \o <<0, 0, 0, 13>> \o IhdrType \o <<0, 0>>,
     PngSignature \o <<0, 0, 0, 13, 105, 68, 79, 84, 0, 0, 3, 32, 0, 0, 2, 88>>,
     <<120, 120, 120, 120, 120, 120, 120, 120, 120>>,
     <<120>>,
     <<>>}

SniffFiles == PngSamples \cup JpegSamples \cup OtherSamples

SniffCall(op, bytes, s) == [op |-> op, bytes |-> bytes, s |-> s]

InitSniff ==
    /\ m_wallpapers = <<>>
    /\ m_lastError = NoErrText
    /\ m_lastErrorCode = "None"
    /\ m_allWallpapersCache = <<>>
    /\ m_cacheValid = FALSE
    /\ m_displays = <<>>
    /\ cmds = <<>>
    /\ nCalls = 0
    /\ before = <<>>
    /\ \E bytes \in SniffFiles :
           last = SniffCall("open", bytes,
                            SniffNothing(OpenFile(bytes), FALSE))

CallSniffHeader ==
    /\ last.op = "open"
    /\ \E s \in SniffHeader(last.bytes) :
           last' = SniffCall("header", last.bytes, s)
    /\ UNCHANGED <<m_wallpapers, m_lastError, m_lastErrorCode,
                   m_allWallpapersCache, m_cacheValid, m_displays, cmds,
                   nCalls, before>>

CallSniffMarker ==
    /\ last.op # "open"
    /\ last.s.scanning
    /\ \E s \in SniffMarker(last.s) :
           last' = SniffCall("marker", last.bytes, s)
    /\ UNCHANGED <<m_wallpapers, m_lastError, m_lastErrorCode,
                   m_allWallpapersCache, m_cacheValid, m_displays, cmds,
                   nCalls, before>>

NextSniff ==
    \/ CallSniffHeader
    \/ CallSniffMarker

SpecSniff == InitSniff /\ [][NextSniff]_vars

\* the reader as it enters the marker scan or passes it by
InitScan ==
    /\ m_wallpapers = <<>>
    /\ m_lastError = NoErrText
    /\ m_lastErrorCode = "None"
    /\ m_allWallpapersCache = <<>>
    /\ m_cacheValid = FALSE
    /\ m_displays = <<>>
    /\ cmds = <<>>
    /\ nCalls = 0
    /\ before = <<>>
    /\ \E bytes \in SniffFiles :
       \E s \in SniffHeader(bytes) :
           last = SniffCall("header", bytes, s)

\* one turn of the marker scan; nCalls is the parity of the turns taken
CallScanTurn ==
    /\ last.s.scanning
    /\ \E s \in SniffMarker(last.s) :
           last' = SniffCall("marker", last.bytes, s)
    /\ nCalls' = 1 - nCalls
    /\ UNCHANGED <<m_wallpapers, m_lastError, m_lastErrorCode,
                   m_allWallpapersCache, m_cacheValid, m_displays, cmds,
                   before>>

NextScan == CallScanTurn

\* the scan runs on one thread that nothing suspends: a turn it can take
\* is taken
SpecScan == InitScan /\ [][NextScan]_vars /\ WF_vars(NextScan)

----------------------------------------------------------------------------
(* The shell.  std::system(command) hands the command line to sh -c.  The  *)
(* shell reads the line character by character: blanks end a word; ";",   *)
(* "&", "|", "&&", "||" and the newline end a command; quotes and the      *)
(* backslash make the characters after them ordinary; "$NAME" and "~" are  *)
(* replaced from the environment; "*" and "?" match the names of files;    *)
(* "<" and ">" take the word after them as a file; "#" at the start of a   *)
(* word begins a comment.  A line the grammar refuses is run not at all.   *)
(* The line is read from pos on, with the program's own words already      *)
(* read; word is the word being read.  A line whose meaning needs more     *)
(* than this (a command substitution, "${", a subshell, a compound         *)
(* command, an assignment, a bracket pattern, a here-document, a variable  *)
(* the shell sets to a value of its own surroundings) is reported as       *)
(* beyond, and nothing is said of it.                                      *)

\* the environment of the process: the variables that are set
ShellEnviron ==
    { [name |-> <<"H", "O", "M", "E">>, value |-> <<"/", "r", "o", "o", "t">>] }

ShellHome == <<"H", "O", "M", "E">>

\* the variables the shell sets itself when it starts, whatever the
\* environment: the option index, two of the prompts and the characters
\* that separate fields
ShellSets ==
    { [name |-> <<"O", "P", "T", "I", "N", "D">>, value |-> <<"1">>],
      [name |-> <<"P", "S", "2">>, value |-> <<">", " ">>],
      [name |-> <<"P", "S", "4">>, value |-> <<"+", " ">>],
      [name |-> <<"I", "F", "S">>, value |-> <<" ", "\t", "\n">>] }

\* the variables it sets to values the text does not tell: the prompt of
\* the user, the search path, the working directory, the process that
\* started it and the number of the line
ShellUntold ==
    { <<"P", "S", "1">>, <<"P", "A", "T", "H">>, <<"P", "W", "D">>,
      <<"P", "P", "I", "D">>, <<"L", "I", "N", "E", "N", "O">> }

ShellVariables == ShellSets \cup ShellEnviron

ShellIsSet(name) == \E v \in ShellVariables : v.name = name

\* a variable that is not set gives nothing
ShellValue(name) ==
    IF ShellIsSet(name)
    THEN (CHOOSE v \in ShellVariables : v.name = name).value
    ELSE <<>>

\* the directories the files are in, as paths from the working directory
ShellDirs ==
    UNION { {SubSeq(f, 1, k - 1) : k \in {j \in 2..Len(f) : f[j] = "/"}} :
            f \in ExistingFiles }

\* the names a pattern can match: the files, the directories, and the two
\* names every directory has for itself and for the one above it
ShellEntries ==
    ExistingFiles \cup ShellDirs \cup {<<".">>, <<".", ".">>} \cup
    {d \o <<"/", ".">> : d \in ShellDirs} \cup
    {d \o <<"/", ".", ".">> : d \in ShellDirs}

\* the backquote, which a string holds only together with the quote that
\* closes it: the two stand for the one character
Backquote == "`'"

\* the characters in the order of their codes
ByteOrder ==
    <<"\t", "\n", VerticalTab, "\f", "\r", " ", "!", "\"", "#", "$", "%",
      "&", "'", "(", ")", "*", "+", ",", "-", ".", "/">> \o DigitChars \o
    <<":", ";", "<", "=", ">", "?", "@">> \o UpperChars \o
    <<"[", "\\", "]", "^", "_", Backquote>> \o LowerChars \o <<"{", "|", "}", "~">>

ByteOf(c) == CHOOSE i \in 1..Len(ByteOrder) : ByteOrder[i] = c

\* strcmp(a, b) < 0
StrLess(a, b) ==
    \E k \in 1..(Len(a) + 1) :
        /\ k <= Len(b)
        /\ \A i \in 1..(k - 1) : a[i] = b[i]
        /\ k > Len(a) \/ ByteOf(a[k]) < ByteOf(b[k])

RECURSIVE ShellSorted(_)
ShellSorted(names) ==
    IF names = {} THEN <<>>
    ELSE LET first == CHOOSE x \in names :
                          \A y \in names \ {x} : StrLess(x, y)
         IN  <<first>> \o ShellSorted(names \ {first})

\* the pattern from i on matches the name from j on; act holds the places
\* of the stars and question marks of the pattern that stand unquoted.
\* Neither matches a slash, nor the dot a file name begins with
RECURSIVE ShellMatch(_, _, _, _, _)
ShellMatch(pat, act, i, name, j) ==
    IF i > Len(pat) THEN j > Len(name)
    ELSE LET hidden == /\ j <= Len(name)
                       /\ name[j] = "."
                       /\ j = 1 \/ name[j - 1] = "/"
         IN  IF i \in act /\ pat[i] = "*"
             THEN /\ ~hidden
                  /\ \E k \in j..(Len(name) + 1) :
                         /\ \A m \in j..(k - 1) : name[m] # "/"
                         /\ ShellMatch(pat, act, i + 1, name, k)
             ELSE IF j > Len(name) THEN FALSE
             ELSE IF i \in act /\ pat[i] = "?"
             THEN /\ ~hidden
                  /\ name[j] # "/"
                  /\ ShellMatch(pat, act, i + 1, name, j + 1)
             ELSE /\ pat[i] = name[j]
                  /\ ShellMatch(pat, act, i + 1, name, j + 1)

\* a pattern whose parts between "/" are names: none is empty, "." or ".."
ShellGlobbable(word) ==
    /\ word # <<>>
    /\ word[1] # "/"
    /\ word[Len(word)] # "/"
    /\ \A i \in 1..(Len(word) - 1) : ~(word[i] = "/" /\ word[i + 1] = "/")
    /\ \A i \in 1..Len(word) :
           LET starts == i = 1 \/ word[i - 1] = "/"
               ends(k) == k = Len(word) \/ word[k + 1] = "/"
           IN  ~(/\ starts
                 /\ word[i] = "."
                 /\ \/ ends(i)
                    \/ i < Len(word) /\ word[i + 1] = "." /\ ends(i + 1))

\* the words a pattern becomes: the names it matches, in order, or itself
\* when it matches none
ShellGlob(word, act) ==
    LET found == {e \in ShellEntries : ShellMatch(word, act, 1, e, 1)}
    IN  IF found = {} THEN <<word>> ELSE ShellSorted(found)

ShellBlanks    == {" ", "\t"}
ShellNameStart == LetterSet \cup {"_"}
\* what follows "$" in the parameters and substitutions that are not names
ShellSpecials  == DigitSet \cup {"{", "(", "?", "#", "$", "!", "-", "*", "@"}
\* what ends a word that began with "~"
ShellTildeEnds == ShellBlanks \cup {"", "\n", ";", "&", "|", "(", ")", "<", ">", "/"}

\* reserved words that no command begins with, and those that begin a
\* compound command
ShellClosers ==
    { <<"t", "h", "e", "n">>, <<"e", "l", "s", "e">>, <<"e", "l", "i", "f">>,
      <<"f", "i">>, <<"d", "o">>, <<"d", "o", "n", "e">>,
      <<"e", "s", "a", "c">>, <<"}">>, <<"i", "n">> }
ShellOpeners ==
    { <<"i", "f">>, <<"w", "h", "i", "l", "e">>, <<"u", "n", "t", "i", "l">>,
      <<"f", "o", "r">>, <<"c", "a", "s", "e">>, <<"{">>, <<"!">> }

\* the commands the shell carries out itself
ShellBuiltins ==
    { <<".">>, <<":">>, <<"[">>, <<"a", "l", "i", "a", "s">>, <<"b", "g">>,
      <<"b", "r", "e", "a", "k">>, <<"c", "d">>, <<"c", "h", "d", "i", "r">>,
      <<"c", "o", "m", "m", "a", "n", "d">>,
      <<"c", "o", "n", "t", "i", "n", "u", "e">>, <<"e", "c", "h", "o">>,
      <<"e", "v", "a", "l">>, <<"e", "x", "e", "c">>, <<"e", "x", "i", "t">>,
      <<"e", "x", "p", "o", "r", "t">>, <<"f", "a", "l", "s", "e">>,
      <<"f", "g">>, <<"g", "e", "t", "o", "p", "t", "s">>,
      <<"h", "a", "s", "h">>, <<"j", "o", "b", "s">>, <<"k", "i", "l", "l">>,
      <<"l", "o", "c", "a", "l">>, <<"p", "r", "i", "n", "t", "f">>,
      <<"p", "w", "d">>, <<"r", "e", "a", "d">>,
      <<"r", "e", "a", "d", "o", "n", "l", "y">>,
      <<"r", "e", "t", "u", "r", "n">>, <<"s", "e", "t">>,
      <<"s", "h", "i", "f", "t">>, <<"t", "e", "s", "t">>,
      <<"t", "i", "m", "e", "s">>, <<"t", "r", "a", "p">>,
      <<"t", "r", "u", "e">>, <<"t", "y", "p", "e">>,
      <<"u", "l", "i", "m", "i", "t">>, <<"u", "m", "a", "s", "k">>,
      <<"u", "n", "a", "l", "i", "a", "s">>, <<"u", "n", "s", "e", "t">>,
      <<"w", "a", "i", "t">> }

\* a name a variable can have
ShellIsName(word) ==
    /\ word # <<>>
    /\ word[1] \in ShellNameStart
    /\ \A i \in 2..Len(word) : word[i] \in WordSet

ShellStart(line) ==
    [line |-> line, pos |-> 1, done |-> <<>>, commands |-> <<>>,
     words |-> <<>>, redirs |-> <<>>, word |-> <<>>, act |-> {},
     inWord |-> FALSE, some |-> FALSE, plain |-> TRUE, sawWord |-> FALSE,
     assign |-> FALSE, mode |-> "plain", need |-> FALSE, redir |-> "",
     made |-> FALSE, globbed |-> FALSE, error |-> FALSE, beyond |-> FALSE,
     leading |-> TRUE]

\* the first place from p on where no backslash begins that a newline
\* follows: the two are read as nothing
RECURSIVE ShellSkip(_, _)
ShellSkip(line, p) ==
    IF p < Len(line) /\ line[p] = "\\" /\ line[p + 1] = "\n"
    THEN ShellSkip(line, p + 2)
    ELSE p

\* the character right after the one being read, "" at the end of the line
ShellRaw(t) == IF t.pos < Len(t.line) THEN t.line[t.pos + 1] ELSE ""

\* the next character an operator or a name can go on with
ShellNext(t) ==
    LET p == ShellSkip(t.line, t.pos + 1)
    IN  IF p <= Len(t.line) THEN t.line[p] ELSE ""

\* the place after that character
ShellAfter(t) == ShellSkip(t.line, t.pos + 1) + 1

ShellError(t)  == [t EXCEPT !.error = TRUE]
ShellBeyond(t) == [t EXCEPT !.beyond = TRUE]

\* an operator that nothing allows where it stands
ShellRefuse(t) == IF t.error \/ t.beyond THEN t ELSE ShellError(t)

\* the command being read has nothing yet: the first has the program's words
ShellCmdEmpty(t) ==
    ~t.leading /\ t.words = <<>> /\ t.redirs = <<>> /\ ~t.sawWord

\* the command being read has no name yet: an assignment can stand there,
\* after redirections too
ShellNoName(t) == ~t.leading /\ t.words = <<>> /\ ~t.sawWord

\* a blank or an operator ends the word being read: it is the file of the
\* redirection before it, or a reserved word, or an assignment NAME=value,
\* or a pattern, or a word of the command; a word made of nothing but
\* empty values is dropped.  What a pattern matches when the line itself
\* makes files is beyond this
ShellEndWord(t) ==
    IF ~t.inWord THEN t
    ELSE LET u == [t EXCEPT !.word = <<>>, !.act = {}, !.inWord = FALSE,
                            !.some = FALSE, !.plain = TRUE, !.need = FALSE,
                            !.assign = FALSE]
         IN  IF t.redir # ""
             THEN IF ~t.some \/ (t.redir # "<" /\ t.globbed)
                  THEN ShellBeyond(u)
                  ELSE [u EXCEPT !.redirs = Append(@, <<t.redir, t.word>>),
                                 !.redir = "", !.made = @ \/ t.redir # "<"]
             ELSE IF ShellCmdEmpty(t) /\ t.plain /\ t.word \in ShellClosers
             THEN ShellError(u)
             ELSE IF \/ ShellCmdEmpty(t) /\ t.plain /\ t.word \in ShellOpeners
                     \/ ShellNoName(t) /\ t.assign
             THEN ShellBeyond(u)
             ELSE IF ~t.some THEN [u EXCEPT !.sawWord = TRUE]
             ELSE IF t.act = {}
             THEN [u EXCEPT !.sawWord = TRUE, !.words = Append(@, t.word)]
             ELSE IF ~ShellGlobbable(t.word) \/ t.made THEN ShellBeyond(u)
             ELSE [u EXCEPT !.sawWord = TRUE, !.globbed = TRUE,
                            !.words = @ \o ShellGlob(t.word, t.act)]

\* an operator ends the command being read
ShellEndCommand(t, op) ==
    [t EXCEPT !.commands = Append(@, [words |-> t.words, op |-> op,
                                      redirs |-> t.redirs]),
              !.words = <<>>, !.redirs = <<>>, !.leading = FALSE,
              !.sawWord = FALSE]

\* ";", "&", "&&", "||" or "|", n characters long, after the word before it
\* has ended: it needs a command before it, and the last three one after
ShellOperator(t, op, n) ==
    IF t.error \/ t.beyond THEN t
    ELSE IF t.redir # "" \/ ShellCmdEmpty(t) THEN ShellError(t)
    ELSE [ShellEndCommand(t, op) EXCEPT !.need = op \in {"&&", "||", "|"},
                                        !.pos = IF n = 2 THEN ShellAfter(t)
                                                ELSE @ + 1]

\* the end of a line of the text: the commands read so far are run before
\* the next line is read, unless a command is still due
ShellNewline(t) ==
    IF t.error \/ t.beyond THEN t
    ELSE IF t.redir # "" THEN ShellError(t)
    ELSE IF t.need THEN [t EXCEPT !.pos = @ + 1]
    ELSE LET u == IF ShellCmdEmpty(t) THEN t ELSE ShellEndCommand(t, ";")
         IN  [u EXCEPT !.done = @ \o u.commands, !.commands = <<>>,
                       !.pos = @ + 1]

\* "<" or ">": one digit right before it is the descriptor, not a word
ShellRedirect(t) ==
    LET c  == t.line[t.pos]
        nx == ShellNext(t)
        ioNumber == /\ t.inWord
                    /\ t.plain
                    /\ Len(t.word) = 1
                    /\ t.word[1] \in DigitSet
        u  == ShellEndWord(IF ioNumber
                           THEN [t EXCEPT !.word = <<>>, !.inWord = FALSE,
                                          !.some = FALSE]
                           ELSE t)
    IN  IF u.error \/ u.beyond THEN u
        ELSE IF u.redir # "" THEN ShellError(u)
        ELSE IF c = ">" /\ nx = ">"
        THEN [u EXCEPT !.redir = ">>", !.need = FALSE, !.pos = ShellAfter(t)]
        ELSE IF c = ">" /\ nx = "|"
        THEN [u EXCEPT !.redir = ">", !.need = FALSE, !.pos = ShellAfter(t)]
        ELSE IF nx \in {"<", ">", "&"} THEN ShellBeyond(u)
        ELSE [u EXCEPT !.redir = c, !.need = FALSE, !.pos = @ + 1]

\* the name the line has from place p on, and the place after it
RECURSIVE ShellNameRun(_, _, _)
ShellNameRun(line, p, name) ==
    IF p <= Len(line) /\ line[p] \in WordSet
    THEN ShellNameRun(line, ShellSkip(line, p + 1), Append(name, line[p]))
    ELSE [name |-> name, pos |-> p]

\* the characters that separate the fields of a value
ShellIfs == {" ", "\t", "\n"}

\* a separator in the value of a variable ends a field of the word: the
\* field is a word of the command, or a pattern, and the word goes on
\* after it.  The file of a redirection and an assignment are not split
ShellField(t) ==
    IF t.beyond THEN t
    ELSE IF t.redir # "" \/ (ShellNoName(t) /\ t.assign) THEN ShellBeyond(t)
    ELSE IF ~t.some THEN t
    ELSE IF t.act = {}
    THEN [t EXCEPT !.sawWord = TRUE, !.words = Append(@, t.word),
                   !.word = <<>>, !.some = FALSE]
    ELSE IF ~ShellGlobbable(t.word) \/ t.made THEN ShellBeyond(t)
    ELSE [t EXCEPT !.sawWord = TRUE, !.globbed = TRUE,
                   !.words = @ \o ShellGlob(t.word, t.act),
                   !.word = <<>>, !.act = {}, !.some = FALSE]

\* the value v from its character i on, outside quotes
RECURSIVE ShellSplit(_, _, _)
ShellSplit(t, v, i) ==
    IF i > Len(v) THEN t
    ELSE ShellSplit(IF v[i] \in ShellIfs THEN ShellField(t)
                    ELSE [t EXCEPT !.word = Append(@, v[i]), !.some = TRUE],
                    v, i + 1)

\* "$": the value of the name after it; between double quotes the value
\* is part of the word as it stands, and a word even when it is empty
ShellExpand(t, quoted) ==
    LET nx == ShellNext(t)
    IN  IF nx \in ShellNameStart
        THEN LET r == ShellNameRun(t.line, ShellSkip(t.line, t.pos + 1), <<>>)
             IN  IF r.name \in ShellUntold THEN ShellBeyond(t)
                 ELSE IF quoted
                 THEN [t EXCEPT !.word = @ \o ShellValue(r.name),
                                !.inWord = TRUE, !.plain = FALSE,
                                !.some = TRUE, !.pos = r.pos]
                 ELSE ShellSplit([t EXCEPT !.inWord = TRUE, !.plain = FALSE,
                                           !.pos = r.pos],
                                 ShellValue(r.name), 1)
        ELSE IF nx \in ShellSpecials THEN ShellBeyond(t)
        ELSE [t EXCEPT !.word = Append(@, "$"), !.inWord = TRUE,
                       !.some = TRUE, !.plain = @ /\ ~quoted, !.pos = @ + 1]

\* a backquote follows from p on that no backslash precedes
RECURSIVE ShellCloses(_, _)
ShellCloses(line, p) ==
    IF p > Len(line) THEN FALSE
    ELSE IF line[p] = "\\" THEN ShellCloses(line, p + 2)
    ELSE IF line[p] = Backquote THEN TRUE
    ELSE ShellCloses(line, p + 1)

\* a command substitution, refused when it is left open
ShellBackquote(t) ==
    IF ShellCloses(t.line, t.pos + 1) THEN ShellBeyond(t) ELSE ShellError(t)

\* a character that is part of the word as it stands, n characters read
ShellQuoted(t, c, n) ==
    [t EXCEPT !.word = Append(@, c), !.inWord = TRUE, !.some = TRUE,
              !.plain = FALSE, !.pos = @ + n]

\* the next character between single quotes
ShellStepSingle(t) ==
    LET c == t.line[t.pos]
    IN  IF c = "'" THEN [t EXCEPT !.mode = "plain", !.pos = @ + 1]
        ELSE ShellQuoted(t, c, 1)

\* the next character between double quotes: the backslash acts before
\* "$", the backquote, the double quote, itself and the newline only
ShellStepDouble(t) ==
    LET c  == t.line[t.pos]
        nx == ShellRaw(t)
    IN  IF c = "\"" THEN [t EXCEPT !.mode = "plain", !.pos = @ + 1]
        ELSE IF c = "\\" /\ nx = "\n" THEN [t EXCEPT !.pos = @ + 2]
        ELSE IF c = "\\" /\ nx \in {"$", Backquote, "\"", "\\"}
        THEN ShellQuoted(t, nx, 2)
        ELSE IF c = "$" THEN ShellExpand(t, TRUE)
        ELSE IF c = Backquote THEN ShellBackquote(t)
        ELSE ShellQuoted(t, c, 1)

\* the next character outside quotes
ShellStepPlain(t) ==
    LET c  == t.line[t.pos]
        nx == ShellNext(t)
    IN  IF c = "\""
        THEN [t EXCEPT !.mode = "double", !.inWord = TRUE, !.some = TRUE,
                       !.plain = FALSE, !.pos = @ + 1]
        ELSE IF c = "'"
        THEN [t EXCEPT !.mode = "single", !.inWord = TRUE, !.some = TRUE,
                       !.plain = FALSE, !.pos = @ + 1]
        ELSE IF c = "\\"
        THEN IF ShellRaw(t) = "\n" THEN [t EXCEPT !.pos = @ + 2]
             ELSE IF ShellRaw(t) # "" THEN ShellQuoted(t, ShellRaw(t), 2)
             ELSE ShellQuoted(t, c, 1)
        ELSE IF c \in ShellBlanks
        THEN [ShellEndWord(t) EXCEPT !.pos = @ + 1]
        ELSE IF c = "\n" THEN ShellNewline(ShellEndWord(t))
        ELSE IF c = ";"
        THEN IF nx = ";" THEN ShellRefuse(ShellEndWord(t))
             ELSE ShellOperator(ShellEndWord(t), ";", 1)
        ELSE IF c = "&"
        THEN IF nx = "&" THEN ShellOperator(ShellEndWord(t), "&&", 2)
             ELSE ShellOperator(ShellEndWord(t), "&", 1)
        ELSE IF c = "|"
        THEN IF nx = "|" THEN ShellOperator(ShellEndWord(t), "||", 2)
             ELSE ShellOperator(ShellEndWord(t), "|", 1)
        ELSE IF c = "#" /\ ~t.inWord
        THEN [t EXCEPT !.mode = "comment", !.pos = @ + 1]
        ELSE IF c = "("
        THEN LET u == ShellEndWord(t)
             IN  IF u.error \/ u.beyond THEN u
                 ELSE IF u.leading \/ u.redir # "" THEN ShellError(u)
                 ELSE ShellBeyond(u)
        ELSE IF c = ")" THEN ShellRefuse(ShellEndWord(t))
        ELSE IF c \in {"<", ">"} THEN ShellRedirect(t)
        ELSE IF c = "$" THEN ShellExpand(t, FALSE)
        ELSE IF c = Backquote THEN ShellBackquote(t)
        ELSE IF c = "~" /\ ~t.inWord
        THEN IF nx \in ShellTildeEnds
             THEN [t EXCEPT !.word = IF ShellIsSet(ShellHome)
                                     THEN ShellValue(ShellHome)
                                     ELSE <<"~">>,
                            !.inWord = TRUE, !.some = TRUE, !.plain = FALSE,
                            !.pos = @ + 1]
             ELSE ShellBeyond(t)
        ELSE IF c = "[" THEN ShellBeyond(t)
        ELSE IF c \in {"*", "?"}
        THEN [t EXCEPT !.act = @ \cup {Len(t.word) + 1},
                       !.word = Append(@, c), !.inWord = TRUE, !.some = TRUE,
                       !.plain = FALSE, !.pos = @ + 1]
        ELSE [t EXCEPT !.word = Append(@, c), !.inWord = TRUE, !.some = TRUE,
                       !.assign = @ \/ (c = "=" /\ t.plain /\ ShellIsName(t.word)),
                       !.pos = @ + 1]

\* the next character of the line
ShellStep(t) ==
    IF t.pos > Len(t.line) \/ t.error \/ t.beyond THEN t
    ELSE IF t.mode = "comment"
    THEN IF t.line[t.pos] = "\n" THEN [t EXCEPT !.mode = "plain"]
         ELSE [t EXCEPT !.pos = @ + 1]
    ELSE IF t.mode = "single" THEN ShellStepSingle(t)
    ELSE IF t.mode = "double" THEN ShellStepDouble(t)
    ELSE ShellStepPlain(t)

\* the whole line, four steps at every level
RECURSIVE ShellSteps(_)
ShellSteps(t) ==
    IF t.pos > Len(t.line) \/ t.error \/ t.beyond THEN t
    ELSE ShellSteps(ShellStep(ShellStep(ShellStep(ShellStep(t)))))

\* the end of the text: a quote left open, a redirection without its file
\* and an operator without the command after it are refused
ShellFinish(t) ==
    IF t.error \/ t.beyond THEN t
    ELSE IF t.mode \in {"single", "double"} THEN ShellError(t)
    ELSE LET u == ShellEndWord(t)
         IN  IF u.error \/ u.beyond THEN u
             ELSE IF u.redir # "" \/ u.need THEN ShellError(u)
             ELSE IF ShellCmdEmpty(u) THEN u
             ELSE ShellEndCommand(u, "")

\* the commands that have been read and run at the end: of a text that is
\* refused, those of the lines before the refused one
ShellRead(f) ==
    IF f.beyond THEN <<>>
    ELSE IF f.error THEN f.done
    ELSE f.done \o f.commands

\* what a command does that the shell carries out itself is beyond this;
\* the first command is the program
ShellOwn(f) ==
    IF \E i \in 2..Len(ShellRead(f)) :
           /\ ShellRead(f)[i].words # <<>>
           /\ ShellRead(f)[i].words[1] \in ShellBuiltins
    THEN [f EXCEPT !.beyond = TRUE, !.error = FALSE]
    ELSE f

\* the commands read, their words, the operator after each and the files
\* each is redirected to
ShellResult(t) ==
    LET f  == ShellOwn(ShellFinish(t))
        cs == ShellRead(f)
    IN  [error    |-> f.error /\ ~f.beyond,
         beyond   |-> f.beyond,
         commands |-> [i \in 1..Len(cs) |-> cs[i].words],
         ops      |-> [i \in 1..Len(cs) |-> cs[i].op],
         redirs   |-> [i \in 1..Len(cs) |-> cs[i].redirs]]

\* what sh -c makes of the text that follows the program's own words
ShellParse(line) == ShellResult(ShellSteps(ShellStart(line)))

\* the directory a path names its file in, <<>> for the working directory
ShellParent(path) ==
    LET slashes == {i \in 1..Len(path) : path[i] = "/"}
    IN  IF slashes = {} THEN <<>>
        ELSE SubSeq(path, 1, (CHOOSE i \in slashes :
                                  \A k \in slashes : k <= i) - 1)

\* the exit status the shell does not tell from the text
ShellUnknown == -1

\* opening the file of a redirection fails: reading one that is not there,
\* writing to a directory or into a directory that is not there
ShellCannotOpen(redir) ==
    IF redir[1] = "<"
    THEN redir[2] \notin ExistingFiles \cup ShellDirs
    ELSE \/ redir[2] \in ShellDirs
         \/ ShellParent(redir[2]) \notin ShellDirs \cup {<<>>}

\* the exit status of a command whose redirections open: the program's own
\* status for the first, 127 for a name that is no program and 126 for a
\* file that is there (no image is a program).  What a path outside the
\* working directory does, and a second run of the program, is not told
ShellRun(words, first, status) ==
    IF first THEN status
    ELSE IF words = <<>> THEN 0
    ELSE IF \A i \in 1..Len(words[1]) : words[1][i] # "/"
    THEN IF words[1] = <<"h", "y", "p", "r", "c", "t", "l">>
         THEN ShellUnknown
         ELSE 127
    ELSE IF ~ShellGlobbable(words[1]) THEN ShellUnknown
    ELSE IF words[1] \in ExistingFiles \cup ShellDirs THEN 126
    ELSE 127

\* the redirections of a command that stop it, in their order
ShellStops(redirs) ==
    {i \in 1..Len(redirs) :
        ~ShellGlobbable(redirs[i][2]) \/ ShellCannotOpen(redirs[i])}

\* the exit status of one command: 2 when a redirection fails
ShellCommandStatus(words, redirs, first, status) ==
    IF ShellStops(redirs) = {} THEN ShellRun(words, first, status)
    ELSE IF ShellGlobbable(redirs[Least(ShellStops(redirs))][2]) THEN 2
    ELSE ShellUnknown

\* whether the command after the operator prev is passed over, by the
\* status so far: "&&" and "||" decide, "|" keeps what was decided
ShellSkipping(prev, st, skipping) ==
    IF prev \in {"&&", "||"}
    THEN IF st = ShellUnknown THEN "maybe"
         ELSE IF (st # 0) = (prev = "&&") THEN "yes"
         ELSE "no"
    ELSE IF prev = "|" THEN skipping
    ELSE "no"

\* the exit status after command k, "&" leaves 0
ShellAfterCommand(r, k, st, skip, status) ==
    IF r.ops[k] = "&" THEN 0
    ELSE IF skip = "no"
    THEN ShellCommandStatus(r.commands[k], r.redirs[k], k = 1, status)
    ELSE IF skip = "maybe" THEN ShellUnknown
    ELSE st

\* the exit status after the commands from k on
RECURSIVE ShellExit(_, _, _, _, _)
ShellExitNext(r, k, now, skip, status) ==
    ShellExit(r, k + 1, now, ShellSkipping(r.ops[k], now, skip), status)

ShellExit(r, k, st, skip, status) ==
    IF k > Len(r.commands) THEN st
    ELSE ShellExitNext(r, k, ShellAfterCommand(r, k, st, skip, status),
                       skip, status)

\* the exit status of sh -c on what it read: 2 when it refuses the text
ShellExitOf(r, status) ==
    IF r.beyond THEN ShellUnknown
    ELSE IF r.error THEN 2
    ELSE ShellExit(r, 1, 0, "no", status)

\* the values std::system can return for an exit status: the status in
\* the second byte
ShellWait(e) ==
    IF e = ShellUnknown THEN {256 * x : x \in 0..255} ELSE {256 * e}

\* what std::system can return when the program (the first command)
\* would return status itself
ShellStatus(line, status) ==
    ShellWait(ShellExitOf(ShellParse(line), status \div 256))

\* the statuses of the preload and the set command for a path and a display
ShellEnvs(path, displayId) ==
    UNION { { [env EXCEPT !.preload = p, !.wallpaper = w] :
              p \in ShellStatus(path, env.preload),
              w \in ShellStatus(createHyprlandCommand(path, displayId,
                                                      "Scale", env.monitors),
                                env.wallpaper) } :
            env \in Envs }

ShellPaths == {PathA, PathSpace, PathSemi, PathQuote, PathDollar,
               PathApostrophe, PathAmp}

CallSetWallpaperShell ==
    /\ nCalls < MaxCalls
    /\ \E path \in ShellPaths, displayId \in DisplayIds :
       \E env \in ShellEnvs(path, displayId) :
         \E s \in {setWallpaper(Self, path, displayId, env)} :
             /\ Commit(s)
             /\ last' = Call("setWallpaper", path, displayId, "Scale", s.ret)

CallApplyToHyprlandShell ==
    /\ nCalls < MaxCalls
    /\ \E displayId \in DisplayIds :
       \E env \in IF HasKey(m_wallpapers, displayId)
                  THEN ShellEnvs(ValueOf(m_wallpapers, displayId).path,
                                 displayId)
                  ELSE {QuietEnv} :
         \E s \in {applyToHyprland(Self, displayId, env)} :
             /\ Commit(s)
             /\ last' = Call("applyToHyprland", <<>>, displayId, "Scale", s.ret)

NextShell ==
    \/ CallSetWallpaperShell
    \/ CallApplyToHyprlandShell

SpecShell == Init /\ [][NextShell]_vars

----------------------------------------------------------------------------
(* The settings store.  A JSON value is its kind and its content; an       *)
(* object is a function from its keys to its members.  A key is one        *)
(* string: the library gives a dot in it no meaning.  A conversion that    *)
(* throws is a record with threw = TRUE and the id of the exception.       *)

DEFAULT_WINDOW_WIDTH == 1200
DEFAULT_WINDOW_HEIGHT == 800
DEFAULT_WINDOW_X == 100
DEFAULT_WINDOW_Y == 100
DEFAULT_SLIDESHOW_INTERVAL == 300

\* a scale factor, in hundredths
ScaleOne == 100

Json(kind, v) == [kind |-> kind, v |-> v]
JsonNull == Json("null", 0)

\* basic_json::contains(key)
JsonContains(j, key) == j.kind = "object" /\ key \in DOMAIN j.v

\* basic_json::operator[](key) = value on an object
JsonPut(j, key, value) ==
    Json("object", [k \in DOMAIN j.v \cup {key} |->
                        IF k = key THEN value ELSE j.v[k]])

\* a std::vector<std::string> as a JSON array of strings
JsonStrings(strings) ==
    Json("array", [i \in 1..Len(strings) |-> Json("string", strings[i])])

\* the JSON value of a setting of the kind: a list of strings becomes an
\* array of strings
ToJson(kind, v) == IF kind = "array" THEN JsonStrings(v) ELSE Json(kind, v)

\* static_cast<int>(double) on a number in hundredths: the fraction is
\* cut off, towards zero
Truncated(hundredths) ==
    IF hundredths >= 0 THEN hundredths \div ScaleOne
    ELSE -((-hundredths) \div ScaleOne)

\* basic_json::get<T>(): an int converts from a number or a boolean, a
\* double from a number only, a boolean and a string from their own kind
\* only, and a std::vector<std::string> from an array whose members are
\* all strings
JsonGet(j, kind) ==
    CASE kind = "int" /\ j.kind = "int"   -> Got(j.v)
      [] kind = "int" /\ j.kind = "float" -> Got(Truncated(j.v))
      [] kind = "int" /\ j.kind = "bool"  -> Got(IF j.v THEN 1 ELSE 0)
      [] kind = "float" /\ j.kind = "float" -> Got(j.v)
      [] kind = "float" /\ j.kind = "int"   -> Got(j.v * ScaleOne)
      [] kind = "array" /\ j.kind = "array"
             /\ \A i \in 1..Len(j.v) : j.v[i].kind = "string"
             -> Got([i \in 1..Len(j.v) |-> j.v[i].v])
      [] kind \in {"bool", "string"} /\ j.kind = kind -> Got(j.v)
      [] OTHER -> Threw("type_error.302")

\* basic_json::value(key, default)
JsonValue(j, key, kind, default) ==
    IF j.kind # "object" THEN Threw("type_error.306")
    ELSE IF key \notin DOMAIN j.v THEN Got(default)
    ELSE JsonGet(j.v[key], kind)

\* ApplicationConfig as createDefaultApplicationConfig() fills it
createDefaultApplicationConfig ==
    [windowWidth            |-> DEFAULT_WINDOW_WIDTH,
     windowHeight           |-> DEFAULT_WINDOW_HEIGHT,
     windowX                |-> DEFAULT_WINDOW_X,
     windowY                |-> DEFAULT_WINDOW_Y,
     windowMaximized        |-> FALSE,
     showDemoWindow         |-> FALSE,
     selectedDisplay        |-> 0,
     lastWallpaperPath      |-> "",
     wallpaperDirectories   |-> <<"~/Pictures/Wallpapers", "~/Downloads",
                                  "/usr/share/backgrounds">>,
     defaultWallpaperMode   |-> "Scale",
     autoApplyToAllDisplays |-> FALSE,
     enableHotplugEvents    |-> TRUE,
     enableLiveSync         |-> TRUE,
     slideshowInterval      |-> DEFAULT_SLIDESHOW_INTERVAL,
     enableSlideshow        |-> FALSE,
     displays               |-> <<>>]

DisplayConfig(name, wallpaperMode, wallpaperPath, scale, enabled) ==
    [name |-> name, wallpaperMode |-> wallpaperMode,
     wallpaperPath |-> wallpaperPath, scale |-> scale, enabled |-> enabled]

NewConfigManager == [m_config |-> createDefaultApplicationConfig, m_lastError |-> <<>>]

\* the settings of the sections in the order jsonToConfig reads them
ConfigFields ==
    <<[section |-> "window", key |-> "width", field |-> "windowWidth",
       kind |-> "int", default |-> DEFAULT_WINDOW_WIDTH],
      [section |-> "window", key |-> "height", field |-> "windowHeight",
       kind |-> "int", default |-> DEFAULT_WINDOW_HEIGHT],
      [section |-> "window", key |-> "x", field |-> "windowX",
       kind |-> "int", default |-> DEFAULT_WINDOW_X],
      [section |-> "window", key |-> "y", field |-> "windowY",
       kind |-> "int", default |-> DEFAULT_WINDOW_Y],
      [section |-> "window", key |-> "maximized", field |-> "windowMaximized",
       kind |-> "bool", default |-> FALSE],
      [section |-> "ui", key |-> "showDemoWindow", field |-> "showDemoWindow",
       kind |-> "bool", default |-> FALSE],
      [section |-> "ui", key |-> "selectedDisplay", field |-> "selectedDisplay",
       kind |-> "int", default |-> 0],
      [section |-> "ui", key |-> "lastWallpaperPath", field |-> "lastWallpaperPath",
       kind |-> "string", default |-> ""],
      [section |-> "wallpaper", key |-> "directories", field |-> "wallpaperDirectories",
       kind |-> "array", default |-> <<>>],
      [section |-> "wallpaper", key |-> "defaultMode", field |-> "defaultWallpaperMode",
       kind |-> "string", default |-> "Scale"],
      [section |-> "wallpaper", key |-> "autoApplyToAll", field |-> "autoApplyToAllDisplays",
       kind |-> "bool", default |-> FALSE],
      [section |-> "advanced", key |-> "enableHotplugEvents", field |-> "enableHotplugEvents",
       kind |-> "bool", default |-> TRUE],
      [section |-> "advanced", key |-> "enableLiveSync", field |-> "enableLiveSync",
       kind |-> "bool", default |-> TRUE],
      [section |-> "advanced", key |-> "slideshowInterval", field |-> "slideshowInterval",
       kind |-> "int", default |-> DEFAULT_SLIDESHOW_INTERVAL],
      [section |-> "advanced", key |-> "enableSlideshow", field |-> "enableSlideshow",
       kind |-> "bool", default |-> FALSE]>>

SectionFields(section) ==
    {i \in 1..Len(ConfigFields) : ConfigFields[i].section = section}

DisplayToJson(display) ==
    Json("object",
         [k \in {"name", "wallpaperMode", "wallpaperPath", "scale", "enabled"} |->
             CASE k = "name"          -> Json("string", display.name)
               [] k = "wallpaperMode" -> Json("int", display.wallpaperMode)
               [] k = "wallpaperPath" -> Json("string", display.wallpaperPath)
               [] k = "scale"         -> Json("float", display.scale)
               [] k = "enabled"       -> Json("bool", display.enabled)])

\* ConfigManager::configToJson
configToJson(c) ==
    Json("object",
         [k \in {"window", "ui", "wallpaper", "advanced", "displays"} |->
             IF k = "displays"
             THEN Json("array", [i \in 1..Len(c.displays) |->
                                    DisplayToJson(c.displays[i])])
             ELSE Json("object",
                       [f \in {ConfigFields[i].key : i \in SectionFields(k)} |->
                           LET d == ConfigFields[CHOOSE i \in SectionFields(k) :
                                                    ConfigFields[i].key = f]
                           IN  ToJson(d.kind, c[d.field])])])

\* one window.value(...) call of jsonToConfig
ReadField(json, d) ==
    JsonValue(json.v[d.section], d.key, d.kind, d.default)

\* the assignments of the four sections: a section the document does not
\* have is passed by, and nothing is assigned from the first conversion
\* that throws onwards
ReadFields(c, json) ==
    LET present == {i \in 1..Len(ConfigFields) :
                       JsonContains(json, ConfigFields[i].section)}
        got     == [i \in present |-> ReadField(json, ConfigFields[i])]
        thrown  == {i \in present : got[i].threw}
        stop    == IF thrown = {} THEN Len(ConfigFields) + 1
                   ELSE CHOOSE i \in thrown : \A j \in thrown : i <= j
        read    == {i \in present : i < stop}
        Source(f) == {i \in read : ConfigFields[i].field = f}
    IN  [c     |-> [f \in DOMAIN c |->
                       IF Source(f) = {} THEN c[f]
                       ELSE got[CHOOSE i \in Source(f) : TRUE].v],
         threw |-> thrown # {},
         what  |-> IF thrown = {} THEN "" ELSE got[stop].what]

\* one turn of the loop over json["displays"]
ReadDisplay(r, displayJson) ==
    IF r.threw THEN r
    ELSE LET name    == JsonValue(displayJson, "name", "string", "")
             mode    == JsonValue(displayJson, "wallpaperMode", "int", 0)
             path    == JsonValue(displayJson, "wallpaperPath", "string", "")
             scale   == JsonValue(displayJson, "scale", "float", ScaleOne)
             enabled == JsonValue(displayJson, "enabled", "bool", TRUE)
             all     == <<name, mode, path, scale, enabled>>
         IN  IF \E i \in 1..5 : all[i].threw
             THEN [r EXCEPT !.threw = TRUE,
                            !.what = all[CHOOSE i \in 1..5 :
                                            /\ all[i].threw
                                            /\ \A j \in 1..(i - 1) : ~all[j].threw].what]
             ELSE [r EXCEPT !.c.displays =
                       Append(@, DisplayConfig(name.v, mode.v, path.v, scale.v,
                                               enabled.v))]

RECURSIVE ReadDisplays(_, _, _)
ReadDisplays(r, array, i) ==
    IF i > Len(array) THEN r
    ELSE ReadDisplays(ReadDisplay(r, array[i]), array, i + 1)

\* ConfigManager::jsonToConfig: the settings read before an exception stay
jsonToConfig(s, json) ==
    LET r1 == ReadFields(s.m_config, json)
        r2 == IF r1.threw THEN r1 ELSE [r1 EXCEPT !.c.displays = <<>>]
        r3 == IF ~r2.threw /\ JsonContains(json, "displays")
                           /\ json.v["displays"].kind = "array"
              THEN ReadDisplays(r2, json.v["displays"].v, 1)
              ELSE r2
    IN  IF r3.threw
        THEN [s   |-> [m_config |-> r3.c,
                       m_lastError |-> <<"Failed to parse JSON config: ", r3.what>>],
              ret |-> FALSE]
        ELSE [s |-> [s EXCEPT !.m_config = r3.c], ret |-> TRUE]

\* ConfigManager::getBool, getInt, getString: kind is the type asked for
getSetting(s, key, defaultValue, kind, text) ==
    LET json == configToJson(s.m_config)
    IN  IF ~JsonContains(json, key)
        THEN [s |-> s, ret |-> defaultValue]
        ELSE LET got == JsonGet(json.v[key], kind)
             IN  IF got.threw
                 THEN [s   |-> [s EXCEPT !.m_lastError = <<text, key, "': ", got.what>>],
                       ret |-> defaultValue]
                 ELSE [s |-> s, ret |-> got.v]

getBool(s, key, defaultValue) ==
    getSetting(s, key, defaultValue, "bool", "Error reading bool setting '")
getInt(s, key, defaultValue) ==
    getSetting(s, key, defaultValue, "int", "Error reading int setting '")
getString(s, key, defaultValue) ==
    getSetting(s, key, defaultValue, "string", "Error reading string setting '")

\* ConfigManager::getStringArray: a member that is no array is passed by
getStringArray(s, key) ==
    LET json == configToJson(s.m_config)
    IN  IF ~JsonContains(json, key) \/ json.v[key].kind # "array"
        THEN [s |-> s, ret |-> <<>>]
        ELSE LET got == JsonGet(json.v[key], "array")
             IN  IF got.threw
                 THEN [s   |-> [s EXCEPT !.m_lastError =
                                   <<"Error reading string array setting '",
                                     key, "': ", got.what>>],
                       ret |-> <<>>]
                 ELSE [s |-> s, ret |-> got.v]

\* ConfigManager::setBool, setInt, setString, setStringArray: the result
\* of jsonToConfig is not looked at
setSetting(s, key, value, kind) ==
    jsonToConfig(s, JsonPut(configToJson(s.m_config), key, ToJson(kind, value))).s

setBool(s, key, value) == setSetting(s, key, value, "bool")
setInt(s, key, value) == setSetting(s, key, value, "int")
setString(s, key, value) == setSetting(s, key, value, "string")
setStringArray(s, key, value) == setSetting(s, key, value, "array")

\* ConfigManager::setDisplayConfig
setDisplayConfig(s, displayName, config) ==
    LET found == {i \in 1..Len(s.m_config.displays) :
                     s.m_config.displays[i].name = displayName}
    IN  IF found # {}
        THEN [s EXCEPT !.m_config.displays[CHOOSE i \in found :
                                              \A j \in found : i <= j] = config]
        ELSE [s EXCEPT !.m_config.displays = Append(@, config)]

\* ConfigManager::clearError
clearConfigError(s) == [s EXCEPT !.m_lastError = <<>>]

\* A path is the sequence of its elements, as std::filesystem::path holds
\* it; <<>> is the empty path.  The directory of the settings is the one
\* FileUtils::getConfigDirectory names under the home directory
ConfigDir == <<"$HOME", ".config", "caithe">>
m_configPath == Append(ConfigDir, "config.json")

\* std::filesystem::path::parent_path
parent_path(path) ==
    IF path = <<>> THEN <<>> ELSE SubSeq(path, 1, Len(path) - 1)

\* a name that is not UTF-8: the bytes of "DP-" and the byte FF after them
Malformed == "DP-\\xFF"

\* the string is valid UTF-8, as every other string of the model is
Utf8Valid(str) == str # Malformed

\* basic_json::dump writes the document: it throws type_error.316 on a
\* string that is not UTF-8
RECURSIVE JsonDumps(_)
JsonDumps(j) ==
    CASE j.kind = "string" -> Utf8Valid(j.v)
      [] j.kind = "array"  -> \A i \in 1..Len(j.v) : JsonDumps(j.v[i])
      [] j.kind = "object" ->
             \A k \in DOMAIN j.v : Utf8Valid(k) /\ JsonDumps(j.v[k])
      [] OTHER -> TRUE

\* what a path holds: nothing, a text that is no JSON document (an empty
\* file is one), or the text of a document.  The text dump(2) writes
\* parses to the document it was written from: every number of the
\* settings is finite
FileMissing == [kind |-> "missing", json |-> JsonNull]
FileText == [kind |-> "text", json |-> JsonNull]
FileJson(json) == [kind |-> "json", json |-> json]

\* documents a file can hold: one with two of the sections, and one whose
\* numbers are of other kinds than the settings read from them and whose
\* second display has a boolean for its scale
DocSections ==
    Json("object",
         [k \in {"window", "ui"} |->
             IF k = "window"
             THEN Json("object", [f \in {"width"} |-> Json("int", 1400)])
             ELSE Json("object", [f \in {"selectedDisplay"} |-> Json("int", 1)])])
DocKinds ==
    Json("object",
         [k \in {"window", "displays"} |->
             IF k = "window"
             THEN Json("object",
                       [f \in {"width", "height"} |->
                           IF f = "width" THEN Json("float", -150)
                           ELSE Json("bool", TRUE)])
             ELSE Json("array",
                       <<Json("object",
                              [f \in {"name", "scale"} |->
                                  IF f = "name" THEN Json("string", "DP-2")
                                  ELSE Json("int", 2)]),
                         Json("object",
                              [f \in {"scale"} |-> Json("bool", TRUE)])>>)])

\* the files of the working directory that no call writes
WorkingFiles ==
    [p \in {<<"odd.json">>, <<"bad.json">>, <<"none.json">>} |->
        CASE p = <<"odd.json">>  -> FileJson(DocKinds)
          [] p = <<"bad.json">>  -> FileText
          [] p = <<"none.json">> -> FileMissing]

\* the two files of the working directory that saveConfig is given: the
\* one is there, the other is in a directory that is not there yet
DocPath == <<"doc.json">>
DotDocPath == <<".", "doc.json">>
SubDocPath == <<"sub", "doc.json">>

\* the disk: whether the directory of the settings is there, is missing and
\* can be made, or is blocked by a file that stands where a directory of
\* its path should be; whether the settings file is locked, so that it can
\* be neither opened nor created; and what the settings file, its copy and
\* the two files of the working directory hold
Disk(dir, locked, config, backup) ==
    [dir |-> dir, locked |-> locked, config |-> config, backup |-> backup,
     doc |-> FileJson(DocSections), sub |-> FileMissing]

\* what a path holds
FileAt(disk, path) ==
    CASE path = m_configPath            -> disk.config
      [] path \in {DocPath, DotDocPath} -> disk.doc
      [] path = SubDocPath              -> disk.sub
      [] OTHER                          -> WorkingFiles[path]

\* the disk after the file of the path has been written
FilePut(disk, path, file) ==
    CASE path = m_configPath            -> [disk EXCEPT !.config = file]
      [] path \in {DocPath, DotDocPath} -> [disk EXCEPT !.doc = file]
      [] path = SubDocPath              -> [disk EXCEPT !.sub = file]

\* std::filesystem::exists(dir) and what create_directories(dir) would do:
\* the working directory is there, the directory sub is there once the
\* file in it is, and the empty path is no directory and cannot be made
DirState(disk, dir) ==
    CASE dir = ConfigDir -> disk.dir
      [] dir = <<".">>   -> "there"
      [] dir = <<"sub">> -> IF disk.sub.kind = "missing" THEN "missing"
                            ELSE "there"
      [] OTHER           -> "blocked"

\* std::filesystem::create_directories(dir) that succeeds; sub is there
\* with its file
DirMade(disk, dir) ==
    IF dir = ConfigDir THEN [disk EXCEPT !.dir = "there"] ELSE disk

\* the disks a manager can be constructed on
Disks ==
    {Disk("missing", FALSE, FileMissing, FileMissing),
     Disk("blocked", FALSE, FileMissing, FileMissing),
     Disk("there", TRUE, FileMissing, FileMissing),
     Disk("there", TRUE, FileJson(DocSections), FileMissing),
     Disk("there", FALSE, FileMissing, FileMissing),
     Disk("there", FALSE, FileText, FileMissing),
     Disk("there", FALSE, FileJson(DocSections), FileMissing)}

\* the outcome of a call on the manager and the disk
ConfigResult(s, disk, ret, threw) ==
    [s |-> s, disk |-> disk, ret |-> ret, threw |-> threw]

ConfigFails(s, disk, text, detail) ==
    ConfigResult([s EXCEPT !.m_lastError = <<text, detail>>], disk, FALSE, "")

\* ConfigManager::parseConfigFile: operator>> throws on a text that is no
\* document
parseConfigFile(s, disk, path) ==
    IF path = m_configPath /\ disk.locked
    THEN ConfigFails(s, disk, "Failed to open config file: ", path)
    ELSE IF FileAt(disk, path).kind = "text"
    THEN ConfigFails(s, disk, "Failed to parse config file: ", "parse_error.101")
    ELSE jsonToConfig(s, FileAt(disk, path).json) @@
         [disk |-> disk, threw |-> ""]

\* ConfigManager::loadConfig
loadConfig(s, disk, configPath) ==
    LET path == IF configPath = <<>> THEN m_configPath ELSE configPath
    IN  IF FileAt(disk, path).kind = "missing"
        THEN ConfigFails(s, disk, "Config file does not exist: ", path)
        ELSE parseConfigFile(s, disk, path)

\* the file std::ofstream has opened, after file << json.dump(2): dump
\* throws before anything is written, and the file stays empty
Written(json) == IF JsonDumps(json) THEN FileJson(json) ELSE FileText

\* ConfigManager::writeConfigFile
writeConfigFile(s, disk, path) ==
    IF path = m_configPath /\ disk.locked
    THEN ConfigFails(s, disk, "Failed to create config file: ", path)
    ELSE IF JsonDumps(configToJson(s.m_config))
    THEN ConfigResult(s, FilePut(disk, path, Written(configToJson(s.m_config))),
                      TRUE, "")
    ELSE ConfigFails(s, FilePut(disk, path, FileText),
                     "Failed to write config file: ", "type_error.316")

\* ConfigManager::saveConfig: the directory of the path is made when it is
\* not there.  std::filesystem::create_directories throws when it cannot
\* make the directory, as for the empty path that a path of one element
\* has for its parent; it returns false only for a directory that is
\* there, which the test before it has excluded
saveConfigTo(s, disk, path) ==
    IF DirState(disk, parent_path(path)) = "blocked"
    THEN ConfigResult(s, disk, FALSE, "filesystem_error")
    ELSE writeConfigFile(s, DirMade(disk, parent_path(path)), path)

saveConfig(s, disk, configPath) ==
    saveConfigTo(s, disk, IF configPath = <<>> THEN m_configPath ELSE configPath)

\* ConfigManager::createDefaultConfig
createDefaultConfig(s, disk) ==
    saveConfig([s EXCEPT !.m_config = createDefaultApplicationConfig], disk, <<>>)

\* ConfigManager::backupConfig: std::filesystem::copy_file throws when it
\* cannot read the one file or write the other
backupConfig(s, disk) ==
    IF disk.config.kind = "missing"
    THEN ConfigResult(s, disk, FALSE, "")
    ELSE IF disk.locked
    THEN ConfigFails(s, disk, "Failed to backup config: ", "filesystem_error")
    ELSE ConfigResult(s, [disk EXCEPT !.backup = disk.config], TRUE, "")

\* ConfigManager::ConfigManager(): the result of loadConfig and of
\* createDefaultConfig is not looked at
ConfigManager(disk) ==
    IF disk.config.kind # "missing"
    THEN loadConfig(NewConfigManager, disk, <<>>)
    ELSE createDefaultConfig(NewConfigManager, disk)

\* ConfigManager::~ConfigManager(): the settings are saved; an exception
\* that leaves a destructor ends the program
ConfigManager_Destroy(s, disk) ==
    IF saveConfig(s, disk, <<>>).threw # ""
    THEN ConfigResult(s, disk, FALSE, "terminate")
    ELSE saveConfig(s, disk, <<>>)

\* keys, values and defaults of the calls
SettingKeys == {"window.width", "window", "displays"}
SettingValues ==
    [int |-> {1400}, bool |-> {TRUE}, string |-> {"Fill"},
     array |-> {<<>>, <<"~/Pictures">>}]
SettingKinds == {"int", "bool", "string"}
DisplayConfigSamples ==
    {DisplayConfig("eDP-1", 3, "/w/a.png", ScaleOne, TRUE),
     DisplayConfig("DP-2", 0, "", 150, FALSE),
     DisplayConfig(Malformed, 0, "", ScaleOne, TRUE)}
MaxDisplayConfigs == 2

SettingDefaults ==
    [int |-> {1200, 1400}, bool |-> {FALSE}, string |-> {"Scale"}]

\* the paths loadConfig and saveConfig are given
LoadPaths == {<<>>, DocPath, SubDocPath} \cup DOMAIN WorkingFiles
SavePaths == {<<>>, DocPath, DotDocPath, SubDocPath}

\* calls made on one manager
MaxConfigCalls == 3

\* a call and its outcome
ConfigCall(op, key, kind, value, r) ==
    [op |-> op, key |-> key, kind |-> kind, value |-> value] @@ r

\* ConfigManager::ConfigManager() on each of the disks
InitConfig ==
    /\ m_wallpapers = <<>>
    /\ m_lastError = NoErrText
    /\ m_lastErrorCode = "None"
    /\ m_allWallpapersCache = <<>>
    /\ m_cacheValid = FALSE
    /\ m_displays = <<>>
    /\ cmds = <<>>
    /\ nCalls = 0
    /\ before = createDefaultApplicationConfig
    /\ \E disk \in Disks :
           last = ConfigCall("new", "", "int", 0, ConfigManager(disk))

\* a call can be made: a constructor that threw has left no manager, and
\* the destructor leaves none
ConfigReady ==
    /\ nCalls < MaxConfigCalls
    /\ last.op # "delete"
    /\ ~(last.op = "new" /\ last.threw # "")

\* a call on the manager
ConfigStep(call) ==
    /\ last' = call
    /\ before' = last.s.m_config
    /\ nCalls' = nCalls + 1
    /\ UNCHANGED <<m_wallpapers, m_lastError, m_lastErrorCode,
                   m_allWallpapersCache, m_cacheValid, m_displays, cmds>>

\* the outcome of a call that leaves the disk alone
InMemory(s, ret) == ConfigResult(s, last.disk, ret, "")

CallSetSetting ==
    /\ ConfigReady
    /\ \E key \in SettingKeys : \E kind \in SettingKinds :
       \E value \in SettingValues[kind] :
           ConfigStep(ConfigCall("set", key, kind, value,
                                 InMemory(setSetting(last.s, key, value, kind),
                                          value)))

CallGetSetting ==
    /\ ConfigReady
    /\ \E key \in SettingKeys : \E kind \in SettingKinds :
       \E defaultValue \in SettingDefaults[kind] :
       \E r \in {CASE kind = "int"    -> getInt(last.s, key, defaultValue)
                   [] kind = "bool"   -> getBool(last.s, key, defaultValue)
                   [] kind = "string" -> getString(last.s, key, defaultValue)} :
           ConfigStep(ConfigCall("get", key, kind, defaultValue,
                                 InMemory(r.s, r.ret)))

CallSetStringArray ==
    /\ ConfigReady
    /\ \E key \in SettingKeys : \E value \in SettingValues["array"] :
           ConfigStep(ConfigCall("setStringArray", key, "array", value,
                                 InMemory(setStringArray(last.s, key, value),
                                          value)))

CallGetStringArray ==
    /\ ConfigReady
    /\ \E key \in SettingKeys :
       \E r \in {getStringArray(last.s, key)} :
           ConfigStep(ConfigCall("getStringArray", key, "array", <<>>,
                                 InMemory(r.s, r.ret)))

CallSetDisplayConfig ==
    /\ ConfigReady
    /\ \E name \in {c.name : c \in DisplayConfigSamples} :
       \E config \in DisplayConfigSamples :
           /\ Len(setDisplayConfig(last.s, name, config).m_config.displays)
                  <= MaxDisplayConfigs
           /\ ConfigStep(ConfigCall("setDisplayConfig", name, "int", 0,
                                    InMemory(setDisplayConfig(last.s, name, config),
                                             TRUE)))

CallClearConfigError ==
    /\ ConfigReady
    /\ ConfigStep(ConfigCall("clearError", "", "int", 0,
                             InMemory(clearConfigError(last.s), 0)))

CallLoadConfig ==
    /\ ConfigReady
    /\ \E configPath \in LoadPaths :
           ConfigStep(ConfigCall("loadConfig", configPath, "int", 0,
                                 loadConfig(last.s, last.disk, configPath)))

CallSaveConfig ==
    /\ ConfigReady
    /\ \E configPath \in SavePaths :
           ConfigStep(ConfigCall("saveConfig", configPath, "int", 0,
                                 saveConfig(last.s, last.disk, configPath)))

CallCreateDefaultConfig ==
    /\ ConfigReady
    /\ ConfigStep(ConfigCall("createDefaultConfig", "", "int", 0,
                             createDefaultConfig(last.s, last.disk)))

CallBackupConfig ==
    /\ ConfigReady
    /\ ConfigStep(ConfigCall("backupConfig", "", "int", 0,
                             backupConfig(last.s, last.disk)))

CallDestroyConfig ==
    /\ ConfigReady
    /\ ConfigStep(ConfigCall("delete", "", "int", 0,
                             ConfigManager_Destroy(last.s, last.disk)))

NextConfig ==
    \/ CallSetSetting
    \/ CallGetSetting
    \/ CallSetStringArray
    \/ CallGetStringArray
    \/ CallSetDisplayConfig
    \/ CallClearConfigError
    \/ CallLoadConfig
    \/ CallSaveConfig
    \/ CallCreateDefaultConfig
    \/ CallBackupConfig
    \/ CallDestroyConfig

SpecConfig == InitConfig /\ [][NextConfig]_vars

----------------------------------------------------------------------------
(* Vocabulary of the properties *)

PreloadProg   == "hyprctl hyprpaper preload "
WallpaperProg == "hyprctl hyprpaper wallpaper "
UnloadProg    == "hyprctl hyprpaper unload all"

HasSupportedExtension(p) == IsSupportedFormat(ToLowerStr(Extension(p)))

\* the three validation stages the specification gives setWallpaper
PassesValidation(p) == p # <<>> /\ HasSupportedExtension(p) /\ FileExists(p)

CmdsOf(prog) == {i \in 1..Len(cmds) : cmds[i].prog = prog}

\* the placements of the map, as a set
Placements(nodes) == {nodes[i].val : i \in 1..Len(nodes)}

\* the calls that run applyToHyprland exactly once
SingleApplyOps == {"applyToHyprland", "setWallpaper", "setWallpaperMode",
                   "setWallpaperAllDisplays"}

\* the public operations that return a success indicator
SuccessOps == {"setWallpaper", "setWallpaperAllDisplays", "removeWallpaper",
               "removeAllWallpapers", "setWallpaperMode", "applyToHyprland",
               "applyToAllHyprlandDisplays"}

----------------------------------------------------------------------------
(* C1: setWallpaper reports the first failing validation stage: an empty   *)
(* path gives InvalidPath for every id, an unsupported extension gives     *)
(* UnsupportedFormat whether or not the file exists, and an allow-listed   *)
(* extension on a missing file gives FileNotFound.                         *)
C1_ValidationOrder ==
    last.op = "setWallpaper" =>
        /\ last.path = <<>> =>
               ~last.ret /\ m_lastErrorCode = "InvalidPath"
        /\ (last.path # <<>> /\ ~HasSupportedExtension(last.path)) =>
               ~last.ret /\ m_lastErrorCode = "UnsupportedFormat"
        /\ (last.path # <<>> /\ HasSupportedExtension(last.path)
                /\ ~FileExists(last.path)) =>
               ~last.ret /\ m_lastErrorCode = "FileNotFound"

(* C2 as stated: whenever setWallpaper returns failure, for any reason,    *)
(* the placement map after the call is the map before the call.            *)
C2_FailureLeavesMapUnchanged ==
    (last.op = "setWallpaper" /\ ~last.ret) => m_wallpapers = before

(* C2 as amended: a display id enters the placement map only through a     *)
(* setWallpaper call whose path passes validation, whether or not that     *)
(* call returns success.  A setWallpaper that fails a validation stage     *)
(* leaves the map as it was; one that passes validation stores the record  *)
(* for its display id before the commands run, and the record stays when   *)
(* the preload or set command fails (every other display's record is       *)
(* untouched).                                                             *)
C2_StoredOnceValidated ==
    /\ (last.op = "setWallpaper" /\ ~PassesValidation(last.path)) =>
           ~last.ret /\ m_wallpapers = before
    /\ (last.op = "setWallpaper" /\ PassesValidation(last.path)) =>
           /\ HasKey(m_wallpapers, last.displayId)
           /\ ValueOf(m_wallpapers, last.displayId).path = last.path
           /\ \A k \in Keys(before) \ {last.displayId} :
                  HasKey(m_wallpapers, k) /\ ValueOf(m_wallpapers, k) = ValueOf(before, k)
           /\ Keys(m_wallpapers) = Keys(before) \cup {last.displayId}
    /\ (Keys(m_wallpapers) \ Keys(before) # {}) =>
           /\ last.op \in {"setWallpaper", "setWallpaperAllDisplays"}
           /\ PassesValidation(last.path)

\* a setWallpaper whose preload or set command failed put a new display id in the map
C2_Witness ==
    /\ last.op = "setWallpaper"
    /\ ~last.ret
    /\ cmds # <<>>
    /\ ~HasKey(before, last.displayId)
    /\ HasKey(m_wallpapers, last.displayId)

(* C3: in a call that runs applyToHyprland once, the set-wallpaper command *)
(* is issued only after the preload of the same placement's path returned  *)
(* zero; a non-zero preload makes the call fail with no set command; and   *)
(* neither command is issued more than once.                               *)
C3_PreloadBeforeSet ==
    last.op \in SingleApplyOps =>
        /\ Cardinality(CmdsOf(PreloadProg)) <= 1
        /\ Cardinality(CmdsOf(WallpaperProg)) <= 1
        /\ \A j \in CmdsOf(WallpaperProg) :
               \E i \in CmdsOf(PreloadProg) :
                   /\ i < j
                   /\ cmds[i].status = 0
                   /\ HasKey(m_wallpapers, last.displayId)
                   /\ cmds[i].arg = ValueOf(m_wallpapers, last.displayId).path
        /\ \A i \in CmdsOf(PreloadProg) :
               cmds[i].status # 0 => ~last.ret /\ CmdsOf(WallpaperProg) = {}

\* applyToHyprland ran a preload that returned non-zero
C3_Witness ==
    /\ last.op = "applyToHyprland"
    /\ \E i \in CmdsOf(PreloadProg) : cmds[i].status # 0

(* C4: setWallpaperAllDisplays with a valid path attempts setWallpaper on  *)
(* every display id of the inventory (each such display gets the record    *)
(* and its own preload), and returns failure exactly when an attempt       *)
(* failed.                                                                 *)
C4_EveryDisplayAttempted ==
    (last.op = "setWallpaperAllDisplays" /\ PassesValidation(last.path)) =>
        /\ \A d \in InventoryIds :
               /\ HasKey(m_wallpapers, d)
               /\ ValueOf(m_wallpapers, d).path = last.path
        /\ Cardinality(CmdsOf(PreloadProg)) = Cardinality(InventoryIds)
        /\ last.ret <=> (\A i \in 1..Len(cmds) : cmds[i].status = 0)

(* C5: setWallpaperMode on a display without a placement fails, creates no *)
(* placement and issues no command; on a display with a placement it       *)
(* stores the mode and then runs the preload/set sequence again.           *)
C5_ModeNeedsPlacement ==
    last.op = "setWallpaperMode" =>
        IF ~HasKey(before, last.displayId)
        THEN ~last.ret /\ m_wallpapers = before /\ cmds = <<>>
        ELSE /\ HasKey(m_wallpapers, last.displayId)
             /\ ValueOf(m_wallpapers, last.displayId).mode = last.mode
             /\ Len(cmds) >= 1
             /\ cmds[1].prog = PreloadProg
             /\ cmds[1].arg = ValueOf(before, last.displayId).path
             /\ cmds[1].status = 0 =>
                    Len(cmds) = 3 /\ cmds[3].prog = WallpaperProg

\* setWallpaperMode was refused for a display without a placement while
\* another display has one
C5_Witness ==
    /\ last.op = "setWallpaperMode"
    /\ ~HasKey(before, last.displayId)
    /\ before # <<>>
    /\ ~last.ret

(* C6: removeWallpaper on a display that has a placement, and              *)
(* removeAllWallpapers, erase the record(s) even when "unload all" exits   *)
(* non-zero; the call then returns failure and the records stay erased.    *)
C6_RemovalNotRolledBack ==
    /\ (last.op = "removeWallpaper" /\ HasKey(before, last.displayId)) =>
           /\ ~HasKey(m_wallpapers, last.displayId)
           /\ Len(cmds) = 1 /\ cmds[1].prog = UnloadProg
           /\ cmds[1].status # 0 => ~last.ret
    /\ last.op = "removeAllWallpapers" =>
           /\ m_wallpapers = <<>>
           /\ Len(cmds) = 1 /\ cmds[1].prog = UnloadProg
           /\ cmds[1].status # 0 => ~last.ret

\* a removeWallpaper whose unload failed on a display that had a placement
C6_Witness ==
    /\ last.op = "removeWallpaper"
    /\ HasKey(before, last.displayId)
    /\ cmds # <<>> /\ cmds[1].status # 0
    /\ ~last.ret

(* C7: there is at most one placement per display id, and a setWallpaper   *)
(* that passes validation leaves for its display exactly the new record:   *)
(* the new path and mode Scale, whatever was stored for it before.         *)
C7_OnePlacementPerDisplay ==
    /\ \A i, j \in 1..Len(m_wallpapers) :
           m_wallpapers[i].key = m_wallpapers[j].key => i = j
    /\ \A i \in 1..Len(m_wallpapers) :
           m_wallpapers[i].val.displayId = m_wallpapers[i].key
    /\ (last.op = "setWallpaper" /\ PassesValidation(last.path)) =>
           /\ HasKey(m_wallpapers, last.displayId)
           /\ ValueOf(m_wallpapers, last.displayId).path = last.path
           /\ ValueOf(m_wallpapers, last.displayId).mode = "Scale"
           /\ Len(m_wallpapers) =
                  Len(before) + (IF HasKey(before, last.displayId) THEN 0 ELSE 1)

\* setWallpaper acted on a display whose record had another path and a mode other than Scale
C7_Witness ==
    /\ last.op = "setWallpaper"
    /\ PassesValidation(last.path)
    /\ HasKey(before, last.displayId)
    /\ ValueOf(before, last.displayId).mode # "Scale"
    /\ ValueOf(before, last.displayId).path # last.path

(* C8: getAllWallpapers returns exactly the current contents of the        *)
(* placement map, one entry per display id with its current path and mode, *)
(* never a stale list; and calling it again at once returns the same list. *)
C8_CacheIsCurrent ==
    last.op = "getAllWallpapers" =>
        /\ Len(m_allWallpapersCache) = Len(m_wallpapers)
        /\ Placements(m_wallpapers) =
               {m_allWallpapersCache[i] : i \in 1..Len(m_allWallpapersCache)}
        /\ \A k \in Keys(m_wallpapers) :
               \E i \in 1..Len(m_allWallpapersCache) :
                   /\ m_allWallpapersCache[i].displayId = k
                   /\ m_allWallpapersCache[i].path = ValueOf(m_wallpapers, k).path
                   /\ m_allWallpapersCache[i].mode = ValueOf(m_wallpapers, k).mode
        /\ getAllWallpapers(Self).m_allWallpapersCache = m_allWallpapersCache

\* getAllWallpapers rebuilt its list after the map had changed
C8_Witness ==
    /\ last.op = "getAllWallpapers"
    /\ m_wallpapers # <<>>
    /\ nCalls >= 2

(* C9: after every public operation that returns a success indicator, a    *)
(* success leaves the last-error text empty and the code None, and a       *)
(* failure leaves the text non-empty and the code other than None.         *)
C9_ErrorFollowsResult ==
    last.op \in SuccessOps =>
        IF last.ret
        THEN m_lastError = NoErrText /\ m_lastErrorCode = "None"
        ELSE m_lastError # NoErrText /\ m_lastErrorCode # "None"

(* C10: a setWallpaper that fails a validation stage leaves the placement  *)
(* map unchanged and issues no external command; so every record of the    *)
(* map holds a path that passed all three validation stages.               *)
C10_ValidationGate ==
    /\ (last.op = "setWallpaper" /\ ~PassesValidation(last.path)) =>
           m_wallpapers = before /\ cmds = <<>>
    /\ \A i \in 1..Len(m_wallpapers) :
           PassesValidation(m_wallpapers[i].val.path)

\* setWallpaper refused a path while the map held a placement
C10_Witness ==
    /\ last.op = "setWallpaper"
    /\ ~PassesValidation(last.path)
    /\ ~last.ret
    /\ m_wallpapers # <<>>

----------------------------------------------------------------------------
(* Vocabulary of the properties that relate two consecutive calls *)

\* the members as they are after the step
SelfNext ==
    [m_wallpapers         |-> m_wallpapers',
     m_lastError          |-> m_lastError',
     m_lastErrorCode      |-> m_lastErrorCode',
     m_allWallpapersCache |-> m_allWallpapersCache',
     m_cacheValid         |-> m_cacheValid',
     cmds                 |-> <<>>,
     ret                  |-> FALSE]

\* what getAllWallpapers() returns when it is called right after the step
PlacementsAfter == getAllWallpapers(SelfNext).m_allWallpapersCache

\* the records of the map in iteration order
ValuesOf(nodes) == [i \in 1..Len(nodes) |-> nodes[i].val]

\* the positions of the list that hold a record of display id
EntriesFor(list, id) == {i \in 1..Len(list) : list[i].displayId = id}

\* the step is one of the calls the specification lists as changing the
\* bookkeeping of the map
MutatesBookkeeping ==
    \/ last'.op = "setWallpaper" /\ PassesValidation(last'.path)
    \/ last'.op = "setWallpaperMode" /\ HasKey(m_wallpapers, last'.displayId)
    \/ last'.op = "removeWallpaper" /\ HasKey(m_wallpapers, last'.displayId)
    \/ last'.op = "removeAllWallpapers"

\* the step leaves a map whose records differ from those it found
RecordChanges ==
    \/ /\ last'.op = "setWallpaper" /\ PassesValidation(last'.path)
       /\ \/ ~HasKey(m_wallpapers, last'.displayId)
          \/ ValueOf(m_wallpapers, last'.displayId) #
                 NewWallpaperInfo(last'.path, last'.displayId)
    \/ /\ last'.op = "setWallpaperMode" /\ HasKey(m_wallpapers, last'.displayId)
       /\ ValueOf(m_wallpapers, last'.displayId).mode # last'.mode
    \/ last'.op = "removeWallpaper" /\ HasKey(m_wallpapers, last'.displayId)
    \/ last'.op = "removeAllWallpapers" /\ m_wallpapers # <<>>

----------------------------------------------------------------------------
(* C11: a setWallpaper with a valid path on display id followed by         *)
(* setWallpaperMode(id, X) leaves getAllWallpapers() with exactly one      *)
(* entry for id, of mode X, whether or not the commands succeeded; a       *)
(* following removeWallpaper(id) leaves getAllWallpapers() without an      *)
(* entry for id, and empty when no other display has a placement.          *)
C11_Step ==
    /\ ( /\ last.op = "setWallpaper" /\ PassesValidation(last.path)
         /\ last'.op = "setWallpaperMode" /\ last'.displayId = last.displayId )
       => /\ Cardinality(EntriesFor(PlacementsAfter, last'.displayId)) = 1
          /\ \A i \in EntriesFor(PlacementsAfter, last'.displayId) :
                 PlacementsAfter[i].mode = last'.mode
    /\ ( /\ last.op = "setWallpaperMode" /\ HasKey(m_wallpapers, last.displayId)
         /\ last'.op = "removeWallpaper" /\ last'.displayId = last.displayId )
       => /\ EntriesFor(PlacementsAfter, last'.displayId) = {}
          /\ Keys(m_wallpapers) = {last.displayId} => PlacementsAfter = <<>>

C11_ModeRoundTrip == [][C11_Step]_vars

\* setWallpaper, setWallpaperMode(Tile) and removeWallpaper ran in turn on one display
C11_Witness ==
    /\ nCalls = 3
    /\ last.op = "removeWallpaper"
    /\ HasKey(before, last.displayId)
    /\ ValueOf(before, last.displayId).mode = "Tile"
    /\ m_wallpapers = <<>>

(* C12 as stated: between two getAllWallpapers() calls, an intervening     *)
(* setWallpaper that passes validation, setWallpaperMode or                *)
(* removeWallpaper on an existing placement, or removeAllWallpapers makes  *)
(* the second result differ from the first.                                *)
C12_AnyMutationChangesResult ==
    [][ (last.op = "getAllWallpapers" /\ MutatesBookkeeping)
            => PlacementsAfter # m_allWallpapersCache ]_vars

(* C12 as amended: after such an intervening call the second result is the *)
(* list of the map's records as the call left them; it differs from the    *)
(* first result exactly when the call left a different set of records (a   *)
(* new display id, another path, mode or size for a stored id, a removed   *)
(* record), and equals it when the call stored an identical record,        *)
(* re-applied the stored mode or cleared an empty map.                     *)
C12_ResultFollowsMap ==
    [][ (last.op = "getAllWallpapers" /\ MutatesBookkeeping)
            => /\ PlacementsAfter = ValuesOf(m_wallpapers')
               /\ (PlacementsAfter # m_allWallpapersCache) <=> RecordChanges ]_vars

\* getAllWallpapers returned a non-empty list and the setWallpaperMode that
\* followed left the map with other records than that list
C12_Witness ==
    /\ nCalls = 3
    /\ last.op = "setWallpaperMode"
    /\ before # <<>>
    /\ m_allWallpapersCache = ValuesOf(before)
    /\ ValuesOf(m_wallpapers) # m_allWallpapersCache

----------------------------------------------------------------------------
(* Vocabulary of the properties of the display inventory *)

\* the calls that run refreshDisplays: the constructor and the call itself
RefreshOps == {"new", "refreshDisplays"}

\* the last call ran refreshDisplays, which returned
RefreshReturned == last.op \in RefreshOps /\ last.threw = ""

PrimaryIndexes(displays) == {i \in 1..Len(displays) : displays[i].isPrimary}

\* the name is two runs of letters, digits and underscores around one hyphen
WordDashWord(name) ==
    \E i \in 2..(Len(name) - 1) :
        /\ name[i] = "-"
        /\ \A j \in (1..Len(name)) \ {i} : name[j] \in WordSet

\* the monitors of the sample whose line has the native format
WellFormed(sample) ==
    LET Ok(mon) == WordDashWord(mon.name) IN SelectSeq(sample, Ok)

\* the samples whose text is the output the last call was given
SamplesOfLast == {sample \in HyprSamples : HyprText(sample) = last.hyprland}

\* no line of either output gives a display record
NothingDetected ==
    /\ HyprlandLoop(last.hyprland, last.wild).displays = <<>>
    /\ XrandrLoop(last.xrandr).displays = <<>>

----------------------------------------------------------------------------
(* C13: when both monitor-listing commands print nothing, refreshDisplays   *)
(* leaves exactly one display, 1920x1080 at 60 Hz and primary, whatever    *)
(* the inventory held before.                                              *)
C13_ZeroDetectionFallback ==
    (last.op \in RefreshOps /\ last.hyprland = <<>> /\ last.xrandr = <<>>) =>
        /\ Len(m_displays) = 1
        /\ m_displays[1].width = 1920
        /\ m_displays[1].height = 1080
        /\ m_displays[1].refreshRate = 60
        /\ m_displays[1].isPrimary

\* both commands printed nothing while the inventory held two displays
C13_Witness ==
    /\ last.op = "refreshDisplays"
    /\ last.hyprland = <<>> /\ last.xrandr = <<>>
    /\ Len(before) = 2
    /\ Len(m_displays) = 1

(* C14: whenever neither detection attempt yields a display record, also   *)
(* when a command prints text in which no line has the format,             *)
(* refreshDisplays synthesizes exactly one default display; the inventory  *)
(* is never left empty and the call does not fail.                         *)
C14_NeverLeftEmpty ==
    RefreshReturned =>
        /\ m_displays # <<>>
        /\ last.ret
        /\ NothingDetected =>
               m_displays = <<createDisplayFromInfo(DP1, 1920, 1080, 60, TRUE)>>

(* C15: in every inventory refreshDisplays produces, at most one display   *)
(* is flagged primary.                                                     *)
C15_AtMostOnePrimary ==
    last.op \in RefreshOps => Cardinality(PrimaryIndexes(m_displays)) <= 1

(* C16: the native output gives one display per line that has the format,  *)
(* in the order of the lines, each with the id, width and height of its    *)
(* line and flagged primary exactly when its position is (0,0); two lines  *)
(* at (0,0) and (1920,0) give one primary display, listed first.           *)
C16_NativeParse ==
    \A sample \in SamplesOfLast :
        (last.op \in RefreshOps /\ WellFormed(sample) # <<>>) =>
            /\ Len(m_displays) = Len(WellFormed(sample))
            /\ \A i \in 1..Len(m_displays) :
                   /\ m_displays[i].id = WellFormed(sample)[i].id
                   /\ m_displays[i].name = WellFormed(sample)[i].name
                   /\ m_displays[i].width = WellFormed(sample)[i].width
                   /\ m_displays[i].height = WellFormed(sample)[i].height
                   /\ m_displays[i].isPrimary <=>
                          (WellFormed(sample)[i].x = 0 /\ WellFormed(sample)[i].y = 0)
            /\ sample = HyprSideBySide =>
                   PrimaryIndexes(m_displays) = {1} /\ Len(m_displays) = 2

\* the native output listed the display with id 1 before the one with id 0
C16_Witness ==
    /\ last.op = "refreshDisplays"
    /\ last.hyprland = HyprText(HyprReversed)
    /\ Len(m_displays) = 2
    /\ m_displays[1].id = 1

(* C17 as stated: whenever the inventory is not empty, getPrimaryDisplay   *)
(* returns a display with isPrimary and isActive true and a positive       *)
(* width, height and refresh rate.                                         *)
C17_PrimaryIsFlagged ==
    (last.op = "getPrimaryDisplay" /\ m_displays # <<>>) =>
        /\ last.display.isPrimary
        /\ last.display.isActive
        /\ last.display.width > 0
        /\ last.display.height > 0
        /\ last.display.refreshRate > 0

----------------------------------------------------------------------------
(* Exact arithmetic for the properties of the geometry helpers: a natural  *)
(* number of any size is the sequence of its bits, most significant first  *)

Zeros(n) == [i \in 1..n |-> 0]

Pad(x, n) == Zeros(n - Len(x)) \o x

LexLeq(x, y) ==
    \/ x = y
    \/ \E i \in 1..Len(x) : x[i] < y[i] /\ \A j \in 1..(i - 1) : x[j] = y[j]

BigLeq(x, y) ==
    LexLeq(Pad(x, Len(x) + Len(y)), Pad(y, Len(x) + Len(y)))

\* one step of x * n, from the last bit of x to the first: m.acc holds the
\* bits of the product found so far, m.carry is what they carry into the
\* next one
MulStep(x, n, m) ==
    IF Len(m.acc) >= Len(x) THEN m
    ELSE LET bit == x[Len(x) - Len(m.acc)]
             low == bit * (n % 2) + (m.carry % 2)
         IN  [carry |-> bit * (n \div 2) + (m.carry \div 2) + (low \div 2),
              acc   |-> <<low % 2>> \o m.acc]

\* the steps over all the bits of x, eight at every level
RECURSIVE MulSteps(_, _, _)
MulSteps(x, n, m) ==
    IF Len(m.acc) >= Len(x) THEN m
    ELSE MulSteps(x, n,
             MulStep(x, n, MulStep(x, n, MulStep(x, n, MulStep(x, n,
             MulStep(x, n, MulStep(x, n, MulStep(x, n, MulStep(x, n, m)))))))))

\* the bits of the product once every bit of x has been taken
MulBits(m) == ToBits(m.carry) \o m.acc

\* x * n + carry
MulSmall(x, n, carry) == MulBits(MulSteps(x, n, [carry |-> carry, acc |-> <<>>]))

\* x + n
AddSmall(x, n) == MulSmall(x, 1, n)

\* the returned double times imageSize, and displaySize, both in units of
\* the last place of the double
Product(r, imageSize) == MulSmall(r.bits, imageSize, 0)
Scaled(r, displaySize) == ToBits(displaySize) \o Zeros(MantissaBits - 1 - r.exp)

\* r * imageSize <= displaySize and r * imageSize >= displaySize, exactly
Fits(r, displaySize, imageSize) ==
    BigLeq(Product(r, imageSize), Scaled(r, displaySize))
Fills(r, displaySize, imageSize) ==
    BigLeq(Scaled(r, displaySize), Product(r, imageSize))

\* the same two relations up to the rounding of the division: r is at most
\* half a unit in its last place above, or below, displaySize / imageSize
FitsRounded(r, displaySize, imageSize) ==
    BigLeq(Product(r, imageSize) \o <<0>>,
           AddSmall(Scaled(r, displaySize) \o <<0>>, imageSize))
FillsRounded(r, displaySize, imageSize) ==
    BigLeq(Scaled(r, displaySize) \o <<0>>,
           AddSmall(Product(r, imageSize) \o <<0>>, imageSize))

\* the double 0.5
Half ==
    Double("finite", FALSE, -1, [i \in 1..MantissaBits |-> IF i = 1 THEN 1 ELSE 0])

\* the last call scaled an image of positive size to a display of positive
\* size
IsAspectScale ==
    /\ last.op = "calculateAspectRatioScale"
    /\ last.displayWidth > 0 /\ last.displayHeight > 0
    /\ last.imageWidth > 0 /\ last.imageHeight > 0

IsAspectExample ==
    /\ last.displayWidth = 1920 /\ last.displayHeight = 1080
    /\ last.imageWidth = 3840 /\ last.imageHeight = 2160

\* C18, as stated: for positive sizes the scale r is positive, r * imageW <=
\* displayW and r * imageH <= displayH exactly, with equality on at least
\* one axis, and it is 0.5 for a 3840x2160 image on a 1920x1080 display
C18_ExactFit ==
    IsAspectScale =>
        /\ last.ret.kind = "finite" /\ ~last.ret.neg
        /\ Fits(last.ret, last.displayWidth, last.imageWidth)
        /\ Fits(last.ret, last.displayHeight, last.imageHeight)
        /\ \/ Fills(last.ret, last.displayWidth, last.imageWidth)
           \/ Fills(last.ret, last.displayHeight, last.imageHeight)
        /\ IsAspectExample => last.ret = Half

\* C18, amended: for positive sizes the scale r is positive, r * imageW <=
\* displayW and r * imageH <= displayH hold up to the rounding of the
\* division (half a unit in the last place of r), on at least one axis r is
\* no further below, and it is exactly 0.5 for a 3840x2160 image on a
\* 1920x1080 display
C18_RoundedFit ==
    IsAspectScale =>
        /\ last.ret.kind = "finite" /\ ~last.ret.neg
        /\ FitsRounded(last.ret, last.displayWidth, last.imageWidth)
        /\ FitsRounded(last.ret, last.displayHeight, last.imageHeight)
        /\ \/ FillsRounded(last.ret, last.displayWidth, last.imageWidth)
           \/ FillsRounded(last.ret, last.displayHeight, last.imageHeight)
        /\ IsAspectExample => last.ret = Half

\* a scale that was rounded up: 3 / 187 on both axes gives a double r with
\* r * 187 > 3
C18_Witness ==
    /\ IsAspectScale
    /\ last.displayWidth = 3 /\ last.imageWidth = 187
    /\ last.displayHeight = 3 /\ last.imageHeight = 187
    /\ ~Fits(last.ret, 3, 187)
    /\ FitsRounded(last.ret, 3, 187)

\* (a - b) / 2 truncated toward zero, on the integers: with a = 2p + s and
\* b = 2q + t, a - b = 2(p - q) + (s - t)
HalfOfDifference(a, b) ==
    LET k == (a \div 2) - (b \div 2)
        e == (a % 2) - (b % 2)
    IN  IF e = 1 /\ k < 0 THEN k + 1
        ELSE IF e = -1 /\ k > 0 THEN k - 1
        ELSE k

\* a - b is an int
DifferenceIsInt(a, b) ==
    /\ HalfOfDifference(a, b) <= INT_MAX \div 2
    /\ HalfOfDifference(a, b) >= -(INT_MAX \div 2) - 1
    /\ (HalfOfDifference(a, b) = -(INT_MAX \div 2) - 1) => (a % 2 = b % 2)

IsCenteringOffsets == last.op = "calculateCenteringOffsets"

\* C19, as stated: for all integer arguments the offsets are
\* (displayW - imageW) / 2 and (displayH - imageH) / 2 truncated toward zero
C19_AllIntegers ==
    IsCenteringOffsets =>
        last.ret = <<HalfOfDifference(last.displayWidth, last.imageWidth),
                     HalfOfDifference(last.displayHeight, last.imageHeight)>>

\* C19, amended: on each axis whose difference is an int the offset is that
\* difference divided by 2 and truncated toward zero (-3 gives -1), and the
\* offsets of an 800x600 image on a 1920x1080 display are (560, 240)
C19_TruncatedHalf ==
    IsCenteringOffsets =>
        /\ DifferenceIsInt(last.displayWidth, last.imageWidth) =>
               last.ret[1] = HalfOfDifference(last.displayWidth, last.imageWidth)
        /\ DifferenceIsInt(last.displayHeight, last.imageHeight) =>
               last.ret[2] = HalfOfDifference(last.displayHeight, last.imageHeight)
        /\ (last.displayWidth = 0 /\ last.imageWidth = 3) => last.ret[1] = -1
        /\ (/\ last.displayWidth = 1920 /\ last.displayHeight = 1080
            /\ last.imageWidth = 800 /\ last.imageHeight = 600) =>
               last.ret = <<560, 240>>

\* a negative odd difference: 0 - 3 on the x axis gives -1, next to
\* 1080 - 2160 on the y axis, which gives -540
C19_Witness ==
    /\ IsCenteringOffsets
    /\ last.displayWidth = 0 /\ last.imageWidth = 3
    /\ last.ret[1] = -1
    /\ last.displayHeight = 1080 /\ last.imageHeight = 2160
    /\ last.ret[2] = -540

----------------------------------------------------------------------------
(* Properties of the header reader *)

\* the reader has finished with the file
SniffDone == last.op # "open" /\ ~last.s.scanning

\* the file begins with the PNG signature and a chunk of type IHDR that
\* holds both size fields
IsPngWithIhdr(bytes) ==
    /\ Len(bytes) >= 24
    /\ SubSeq(bytes, 1, 8) = PngSignature
    /\ SubSeq(bytes, 13, 16) = IhdrType

\* the int kept is the unsigned big-endian integer spelled by the bytes
IsUnsignedOf(x, bytes) ==
    /\ x.known
    /\ x.v >= 0
    /\ bytes = [i \in 1..Len(bytes) |-> (x.v \div (256 ^ (Len(bytes) - i))) % 256]

\* the position of the first frame header of a JPEG file, 0 if it has
\* none: the segments are walked from the start of image by their unsigned
\* lengths; the markers 0xC4, 0xC8 and 0xCC are no frame headers
RECURSIVE FirstFrameHeader(_, _)
FirstFrameHeader(bytes, pos) ==
    IF pos + 9 > Len(bytes) \/ bytes[pos + 1] # 255 THEN 0
    ELSE IF bytes[pos + 2] \in (192..207) \ {196, 200, 204} THEN pos
    ELSE FirstFrameHeader(bytes, pos + 2 + bytes[pos + 3] * 256 + bytes[pos + 4])

IsJpegWithFrame(bytes) ==
    /\ Len(bytes) >= 2
    /\ SubSeq(bytes, 1, 2) = JpegSoi
    /\ FirstFrameHeader(bytes, 2) # 0

\* C20: for a PNG file with an IHDR chunk the width and height kept are the
\* unsigned big-endian 32-bit integers after the chunk type, whatever the
\* bytes; for a JPEG file they are the unsigned big-endian 16-bit integers
\* of its first frame header
C20_UnsignedBigEndian ==
    SniffDone =>
        /\ IsPngWithIhdr(last.bytes) =>
               /\ IsUnsignedOf(last.s.width, SubSeq(last.bytes, 17, 20))
               /\ IsUnsignedOf(last.s.height, SubSeq(last.bytes, 21, 24))
        /\ IsJpegWithFrame(last.bytes) =>
               /\ IsUnsignedOf(last.s.height,
                               SubSeq(last.bytes, FirstFrameHeader(last.bytes, 2) + 6,
                                      FirstFrameHeader(last.bytes, 2) + 7))
               /\ IsUnsignedOf(last.s.width,
                               SubSeq(last.bytes, FirstFrameHeader(last.bytes, 2) + 8,
                                      FirstFrameHeader(last.bytes, 2) + 9))

----------------------------------------------------------------------------
(* Properties of the command lines *)

\* the path of the placement the last call applied
AppliedPath == ValueOf(m_wallpapers, last.displayId).path

EndsWith(s, tail) ==
    /\ Len(tail) <= Len(s)
    /\ SubSeq(s, Len(s) - Len(tail) + 1, Len(s)) = tail

\* the shell runs one command, the program's, and gives it one word after
\* the program's own
OneArgument(line) ==
    /\ ~ShellParse(line).error
    /\ ~ShellParse(line).beyond
    /\ Len(ShellParse(line).commands) = 1
    /\ Len(ShellParse(line).commands[1]) = 1
    /\ ShellParse(line).redirs[1] = <<>>

\* C21: every command that carries the image path (the preload command, and
\* the set-wallpaper command with the display name) hands it to the tool as
\* one argument: the preload command's only argument is the path, the
\* set-wallpaper command's only argument ends with the path, and the shell
\* makes no further word or command of it
C21_ValueIsOneArgument ==
    \A i \in 1..Len(cmds) :
        /\ cmds[i].prog = PreloadProg =>
               /\ OneArgument(cmds[i].arg)
               /\ ShellParse(cmds[i].arg).commands[1][1] = AppliedPath
        /\ cmds[i].prog = WallpaperProg =>
               /\ OneArgument(cmds[i].arg)
               /\ EndsWith(ShellParse(cmds[i].arg).commands[1][1], AppliedPath)

----------------------------------------------------------------------------
(* Properties of the mode of a display *)

IsSetMode == last.op = "setWallpaperMode"

FreshModesAreScale ==
    nCalls = 0 => \A id \in DisplayIds : getWallpaperMode(m_wallpapers, id) = "Scale"

\* C22, as stated: setWallpaperMode(id, m) returns true for every display
\* id, with or without a placement, and getWallpaperMode(id) then returns m;
\* before any call getWallpaperMode(id) returns Scale
C22_AlwaysSucceeds ==
    /\ IsSetMode =>
           /\ last.ret
           /\ getWallpaperMode(m_wallpapers, last.displayId) = last.mode
    /\ FreshModesAreScale

----------------------------------------------------------------------------
(* Properties of the order of the placements *)

\* the last call stored a placement for a display that had none
InsertedNewDisplay ==
    /\ last.op = "setWallpaper"
    /\ PassesValidation(last.path)
    /\ ~HasKey(before, last.displayId)

\* what getAllWallpapers() returns when it is called in this state
PlacementsNow == getAllWallpapers(Self).m_allWallpapersCache

\* C23: getAllPlacements() lists the placements in the order in which
\* their display ids were inserted: a placement stored for a display that
\* had none comes after all the placements there were, which keep their
\* order; so after setWallpaper(p1, 0) and setWallpaper(p2, 1) entry 0 has
\* path p1 and entry 1 has path p2
C23_InsertionOrder ==
    InsertedNewDisplay =>
        /\ Len(PlacementsNow) = Len(before) + 1
        /\ SubSeq(PlacementsNow, 1, Len(before)) = ValuesOf(before)
        /\ PlacementsNow[Len(before) + 1].displayId = last.displayId
        /\ PlacementsNow[Len(before) + 1].path = last.path

----------------------------------------------------------------------------
(* Properties of the reader on files it cannot measure *)

HasPngSignature(bytes) ==
    Len(bytes) >= 8 /\ SubSeq(bytes, 1, 8) = PngSignature

HasJpegSoi(bytes) ==
    Len(bytes) >= 2 /\ SubSeq(bytes, 1, 2) = JpegSoi

\* the file is a PNG whose IHDR chunk ends before its two size fields do,
\* or a JPEG that ends before the size fields of a frame header
EndsBeforeDimensions(bytes) ==
    \/ /\ HasPngSignature(bytes)
       /\ Len(bytes) < 24
       /\ Len(bytes) < 16 \/ SubSeq(bytes, 13, 16) = IhdrType
    \/ /\ HasJpegSoi(bytes)
       /\ FirstFrameHeader(bytes, 2) = 0

\* C24: when the file has neither the PNG signature nor the JPEG start of
\* image, or ends before the dimension bytes can be read, the width kept is
\* 1920 and the height kept is 1080
C24_DefaultsWhenUnreadable ==
    (/\ SniffDone
     /\ \/ ~HasPngSignature(last.bytes) /\ ~HasJpegSoi(last.bytes)
        \/ EndsBeforeDimensions(last.bytes)) =>
        /\ MustBe(last.s.width, DefaultWidth)
        /\ MustBe(last.s.height, DefaultHeight)

----------------------------------------------------------------------------
(* Properties of the error fields of the display inventory *)

\* the native command gave no display to the last refresh
NativeFailed ==
    ~queryHyprlandDisplays(NewDisplayManager, last.hyprland, last.wild).ret

\* the last refresh made up the default display: neither command gave any
\* output to parse
UsedSyntheticFallback == NativeFailed /\ last.xrandr = <<>>

\* C25: after a refresh that returns success with displays from the native
\* or from the legacy command, the last-error text is empty and the
\* last-error code is None, also when the native attempt failed before the
\* legacy attempt succeeded
C25_SuccessClearsError ==
    (RefreshReturned /\ last.ret /\ ~UsedSyntheticFallback) =>
        /\ m_lastError = NoErrText
        /\ m_lastErrorCode = "None"

----------------------------------------------------------------------------
(* Properties of what a mode change leaves alone *)

\* the last call set the mode of a display that had a placement
IsSetModeOfPlacement == IsSetMode /\ HasKey(before, last.displayId)

\* C26: setWallpaperMode(id, m) on a display that has a placement changes
\* only the mode of that placement: its path, width, height, format and
\* displayId stay, and so does the placement of every other display,
\* whether the call returned true or false
C26_OnlyModeChanges ==
    IsSetModeOfPlacement =>
        /\ Keys(m_wallpapers) = Keys(before)
        /\ \A k \in Keys(before) \ {last.displayId} :
               ValueOf(m_wallpapers, k) = ValueOf(before, k)
        /\ ValueOf(m_wallpapers, last.displayId) =
               [ValueOf(before, last.displayId) EXCEPT !.mode = last.mode]

\* the mode of one of two placements, one whose size is not the default,
\* was changed and the compositor refused the re-apply
C26_Witness ==
    /\ IsSetModeOfPlacement
    /\ ~last.ret
    /\ Len(before) = 2
    /\ ValueOf(before, last.displayId).mode # last.mode
    /\ ValueOf(before, last.displayId).width # DefaultWidth
    /\ ValueOf(m_wallpapers, last.displayId).mode = last.mode

----------------------------------------------------------------------------
(* Properties of the settings store *)

\* a setter of one type was called and then the getter of that type with
\* the same key
GetFollowsSet ==
    /\ last.op = "set"
    /\ last'.op = "get"
    /\ last'.key = last.key
    /\ last'.kind = last.kind

\* C27: after setInt(k, v), getInt(k, d) returns v for every default d,
\* likewise setBool/getBool and setString/getString, for dotted keys such
\* as "window.width" too
C27_SetThenGet == [][GetFollowsSet => last'.ret = last.value]_vars

----------------------------------------------------------------------------
(* Properties of the result of a refresh *)

\* what a manager that has never held a display is left with by the
\* outputs the last call was given
FreshInventory ==
    refreshDisplays(NewDisplayManager, last.hyprland, last.xrandr,
                    last.wild).m_displays

\* C28: whenever refreshDisplays returns, it returns true if and only if
\* the inventory is not empty after the call: a failed refresh leaves it
\* empty whatever it held before, and a successful one leaves the displays
\* of this refresh only, the same as on a manager that held none
C28_SuccessIffNonEmpty ==
    RefreshReturned =>
        /\ last.ret <=> m_displays # <<>>
        /\ ~last.ret => m_displays = <<>>
        /\ last.ret => m_displays = FreshInventory

\* the native command printed nothing and the legacy output listed no
\* monitor: the call failed and the two displays held before are gone
C28_Witness ==
    /\ last.op = "refreshDisplays"
    /\ last.hyprland = <<>>
    /\ last.xrandr # <<>>
    /\ ~last.ret
    /\ Len(before) = 2
    /\ m_displays = <<>>

----------------------------------------------------------------------------
(* The compositor's wallpaper daemon as the commands act on it: a preload  *)
(* adds its image to the loaded images, a set-wallpaper command assigns a  *)
(* loaded image to a monitor, "unload all" removes every loaded image, and *)
(* a command that returned a non-zero status has changed nothing.  The     *)
(* daemon is carried in last, as it was before the call and as it is now.  *)

NoHyprpaper == [loaded |-> {}, assigned |-> {}]

\* the words "<monitor>,<path>" of a set-wallpaper argument, which the
\* shell hands over without its quotes
WallpaperWords(arg) ==
    LET text  == SelectSeq(arg, LAMBDA c : c # "\"")
        comma == IndexOf(text, ",")
    IN  [monitor |-> SubSeq(text, 1, comma - 1),
         path    |-> SubSeq(text, comma + 1, Len(text)),
         ok      |-> comma # 0]

HyprpaperStep(h, c) ==
    IF c.status # 0 THEN h
    ELSE CASE c.prog = PreloadProg -> [h EXCEPT !.loaded = @ \cup {c.arg}]
           [] c.prog = UnloadProg  -> [h EXCEPT !.loaded = {}]
           [] c.prog = WallpaperProg ->
                  LET w == WallpaperWords(c.arg)
                  IN  IF ~w.ok \/ w.path \notin h.loaded THEN h
                      ELSE [h EXCEPT !.assigned =
                               {a \in @ : a.monitor # w.monitor} \cup
                               {[monitor |-> w.monitor, path |-> w.path]}]
           [] OTHER -> h

RECURSIVE HyprpaperRun(_, _, _)
HyprpaperRun(h, commands, i) ==
    IF i > Len(commands) THEN h
    ELSE HyprpaperRun(HyprpaperStep(h, commands[i]), commands, i + 1)

CompositorCall(call, h) ==
    [op |-> call.op, path |-> call.path, displayId |-> call.displayId,
     mode |-> call.mode, ret |-> call.ret,
     hyprpaperBefore |-> last.hyprpaper, hyprpaper |-> h]

InitCompositor ==
    /\ m_wallpapers = <<>>
    /\ m_lastError = NoErrText
    /\ m_lastErrorCode = "None"
    /\ m_allWallpapersCache = <<>>
    /\ m_cacheValid = FALSE
    /\ m_displays = TwoMonitorInventory
    /\ last = [op |-> "new", path |-> <<>>, displayId |-> 0, mode |-> "Scale",
               ret |-> TRUE, hyprpaperBefore |-> NoHyprpaper,
               hyprpaper |-> NoHyprpaper]
    /\ cmds = <<>>
    /\ nCalls = 0
    /\ before = <<>>

CompositorCommit(s, call) ==
    /\ Commit(s)
    /\ last' = CompositorCall(call, HyprpaperRun(last.hyprpaper, s.cmds, 1))

CallSetWallpaperCompositor ==
    /\ nCalls < MaxCalls
    /\ \E path \in {PathA, PathB}, displayId \in DisplayIds :
       \E env \in Envs :
         \E s \in {setWallpaper(Self, path, displayId, env)} :
             CompositorCommit(s, Call("setWallpaper", path, displayId, "Scale", s.ret))

CallRemoveWallpaperCompositor ==
    /\ nCalls < MaxCalls
    /\ \E displayId \in DisplayIds, status \in ExitCodes :
         \E s \in {removeWallpaper(Self, displayId, status)} :
             CompositorCommit(s, Call("removeWallpaper", <<>>, displayId, "Scale", s.ret))

CallApplyToHyprlandCompositor ==
    /\ nCalls < MaxCalls
    /\ \E displayId \in DisplayIds :
       \E env \in EnvsFor(m_wallpapers, displayId) :
         \E s \in {applyToHyprland(Self, displayId, env)} :
             CompositorCommit(s, Call("applyToHyprland", <<>>, displayId, "Scale", s.ret))

NextCompositor ==
    \/ CallSetWallpaperCompositor
    \/ CallRemoveWallpaperCompositor
    \/ CallApplyToHyprlandCompositor

SpecCompositor == InitCompositor /\ [][NextCompositor]_vars

----------------------------------------------------------------------------
(* Properties of the compositor after a removal *)

\* the image of the placement is loaded and some monitor shows it
ImageLive(h, info) ==
    /\ info.path \in h.loaded
    /\ \E a \in h.assigned : a.path = info.path

\* C29: after removeWallpaper(id) has returned true, every other display
\* that still has a placement, and whose image was loaded and assigned
\* when the call began, still has that image loaded and assigned
C29_OthersStayLoaded ==
    (last.op = "removeWallpaper" /\ last.ret) =>
        \A k \in Keys(m_wallpapers) :
            ImageLive(last.hyprpaperBefore, ValueOf(m_wallpapers, k)) =>
                ImageLive(last.hyprpaper, ValueOf(m_wallpapers, k))

----------------------------------------------------------------------------
(* Properties of the end of the marker scan *)

\* C30: whatever the length bytes of the segments say, the marker scan
\* comes to an end after finitely many turns, with a frame header found or
\* the stream no longer good
C30_ScanEnds == <>SniffDone

====
